---- MODULE Spec2Model ----
(***************************************************************************)
(* Connection runtime (McpRuntime) and OAuth session of craft-mcp-cli.     *)
(*                                                                         *)
(* The runtime is single-threaded and asynchronous: every action below is  *)
(* one run-to-completion segment of JavaScript between two awaits.  The    *)
(* transports, the authorization server and the browser are the            *)
(* environment: their answers are drawn with \E.                           *)
(***************************************************************************)
EXTENDS Integers, Sequences, FiniteSets, TLC

\* ------------------------------------------------------------------ bounds
MaxCalls == 2        \* API calls issued in one behaviour
MaxAttempts == 2     \* createClient invocations in one behaviour
MaxRounds == 3       \* passes of the while(true) loop of one createClient
MaxTokens == 2       \* token pairs issued by the authorization server
MaxRegs == 1         \* registerDefinition calls in one behaviour
MaxDeferred == 2     \* createDeferred calls of one provider
MaxScopeLen == 3     \* characters of a challenged scope string
MaxParams == 2       \* auth-params in one WWW-Authenticate header
MaxArgs == 2         \* tokens after the first one on a command line

\* --------------------------------------------------------------- constants
DEFAULT_OAUTH_CODE_TIMEOUT_MS == 60000

\* ------------------------------------------------------------------- names
\* A server name is a string; modelled as a sequence of characters so that
\* String.prototype.trim is computed, not assumed.
W == <<"w">>
X == <<"x">>
PadW == <<" ", "w">>

IsSpace(ch) == ch = " "

RECURSIVE TrimStart(_)
TrimStart(s) ==
  IF s = <<>> THEN <<>>
  ELSE IF IsSpace(Head(s)) THEN TrimStart(Tail(s)) ELSE s

RECURSIVE TrimEnd(_)
TrimEnd(s) ==
  IF s = <<>> THEN <<>>
  ELSE IF IsSpace(s[Len(s)]) THEN TrimEnd(SubSeq(s, 1, Len(s) - 1)) ELSE s

\* server.trim()
Trim(s) == TrimEnd(TrimStart(s))

\* names a caller may pass to connect/listTools/callTool/close
ServerArgs == {W, PadW, X}
\* names a definition may carry
TableNames == {W, X}

\* ------------------------------------------------------------- definitions
NoDef == [kind |-> "absent"]

StdioDef == [kind |-> "stdio", craft |-> FALSE, adhoc |-> FALSE, auth |-> "none"]
HttpDef(craft, adhoc, auth) ==
  [kind |-> "http", craft |-> craft, adhoc |-> adhoc, auth |-> auth]

\* the definitions a runtime is constructed with
Defs ==
  { StdioDef,
    HttpDef(TRUE, FALSE, "none"),  HttpDef(TRUE, FALSE, "oauth"),
    HttpDef(FALSE, FALSE, "none"), HttpDef(FALSE, FALSE, "oauth"),
    HttpDef(FALSE, TRUE, "none") }

\* the definitions registered later, with the name they carry
Registrations == { <<W, StdioDef>>, <<X, StdioDef>> }

\* a host test that takes no host for a Craft host
isCraftUrlNever(def) == FALSE

\* isCraftUrl: hostname ends in .craft.do or .luki.io (a property of the URL,
\* carried by the definition as the flag craft)
isCraftUrl(def) == def.kind = "http" /\ def.craft

\* a promotion that takes a definition already in OAuth mode as well
maybeEnableOAuthAgain(def) ==
  IF def.kind # "http" THEN NoDef
  ELSE IF ~def.adhoc /\ ~def.craft THEN NoDef
  ELSE [def EXCEPT !.auth = "oauth"]

\* maybeEnableOAuth: the promoted copy, or NoDef for undefined
maybeEnableOAuth(def) ==
  IF def.auth = "oauth" THEN NoDef
  ELSE IF def.kind # "http" THEN NoDef
  ELSE IF ~def.adhoc /\ ~def.craft THEN NoDef
  ELSE [def EXCEPT !.auth = "oauth"]

\* ------------------------------------------------------------------ errors
\* Error values, named after the place that raises them.
ErrUnknownServer == "UnknownServer"          \* connect: Unknown MCP server
ErrConnect401 == "ConnectUnauthorized"       \* client.connect: 401 / auth challenge
ErrConnectFailed == "ConnectFailed"          \* client.connect: any other failure
ErrExchange401 == "ExchangeUnauthorized"     \* transport.finishAuth: 401
ErrExchangeFailed == "ExchangeFailed"        \* transport.finishAuth: other failure
ErrCallback == "OAuthCallbackError"          \* callback carried error= or no code
ErrListen == "ListenFailed"                  \* createOAuthSession: listen failed
ErrRefreshed == "OAuthTokensRefreshedError"  \* new OAuthTokensRefreshedError
ErrTimeout == "OAuthTimeoutError"            \* new OAuthTimeoutError
ErrTool == "ToolError"                       \* client.callTool / listTools failed
ErrAlreadyExists == "AlreadyExists"          \* registerDefinition: MCP server already exists
ErrCallTimedOut == "CallTimedOut"            \* attemptCall: Call to <server>.<tool> timed out after <ms>ms
NoErr == "none"

\* a classifier that recognises no authorization failure
isUnauthorizedErrorNever(e) == FALSE

\* isUnauthorizedError: analyzeConnectionError(error).kind = 'auth'
isUnauthorizedError(e) == e \in {ErrConnect401, ErrExchange401}

\* ------------------------------------------------------------------- state
VARIABLES
  definitions,  \* McpRuntime.definitions: name -> definition
  clients,      \* McpRuntime.clients: Map in insertion order, <<name, attempt>>
  attempts,     \* the createClient invocations: promise, transports, sessions
  calls,        \* the API calls in flight
  ncalls,       \* API calls made so far
  returned,     \* the call that returned or threw last, with what it delivered
  tokenFile,    \* tokens.json of each credential directory (0: absent)
  issued,       \* token pairs issued so far
  regs,         \* registerDefinition calls made so far
  prov,         \* one FileOAuthClientProvider seen on its own: listener, deferred, files
  fn,           \* the last application of a function of the discovery client
  config        \* ~/.craft/config.json and the last connection command run on it

vars == <<definitions, clients, attempts, calls, ncalls, returned, tokenFile, issued, regs,
          prov, fn, config>>

\* the runtime's variables
rvars == <<definitions, clients, attempts, calls, ncalls, returned, tokenFile, issued, regs>>

Attempts == 1..Len(attempts)
Calls == 1..Len(calls)

\* this.clients.get(name): the attempt whose promise is pooled, 0 for none
RECURSIVE PoolGet(_, _)
PoolGet(pool, n) ==
  IF pool = <<>> THEN 0
  ELSE IF Head(pool)[1] = n THEN Head(pool)[2] ELSE PoolGet(Tail(pool), n)

\* this.clients.delete(name)
RECURSIVE PoolDelete(_, _)
PoolDelete(pool, n) ==
  IF pool = <<>> THEN <<>>
  ELSE IF Head(pool)[1] = n THEN Tail(pool)
  ELSE <<Head(pool)>> \o PoolDelete(Tail(pool), n)

\* this.clients.set(name, promise): a new key goes last, a present key keeps
\* its place
\* a Map.set that is lost
PoolSetDropped(pool, n, a) == pool

RECURSIVE PoolSet(_, _, _)
PoolSet(pool, n, a) ==
  IF pool = <<>> THEN << <<n, a>> >>
  ELSE IF Head(pool)[1] = n THEN << <<n, a>> >> \o Tail(pool)
  ELSE <<Head(pool)>> \o PoolSet(Tail(pool), n, a)

\* this.definitions.get(name)
\* a lookup that falls back to a default definition
DefGetFallback(defs, n) ==
  IF n \in TableNames /\ defs[n] # NoDef THEN defs[n] ELSE StdioDef

DefGet(defs, n) == IF n \in TableNames THEN defs[n] ELSE NoDef

\* the credential directories (one per connection name a connect can reach)
PoolNames == {Trim(s) : s \in ServerArgs}

\* ---------------------------------------------------------------- attempts
\* One record per createClient invocation.  pc is the await the invocation is
\* suspended at; once settled ("ok", "closed", "failed") the record is the
\* promise's outcome: the ClientContext or the error.
NewAttempt(n, def, max0, cached) ==
  [ name |-> n,          \* pool key
    def |-> def,         \* activeDefinition
    max0 |-> max0,       \* options.maxOAuthAttempts === 0
    cached |-> cached,   \* useCache of the connect that started it
    pc |-> "top",
    via |-> IF def.kind = "stdio" THEN "stdio" ELSE "stream",
    rounds |-> 1,        \* pass of while (true)
    sess |-> "none",     \* existingOAuthSession: none / open / closed
    od |-> "none",       \* session created on demand in connectWithAuth
    defd |-> "null",     \* provider.authorizationDeferred: null / pending
    t1 |-> "none",       \* StdioClientTransport or StreamableHTTPClientTransport
    t2 |-> "none",       \* newTransport of connectWithAuth
    sse |-> "none",      \* SSEClientTransport
    conn |-> "none",     \* the transport the client is connected over
    ctxT |-> "none",     \* ClientContext.transport
    ctxS |-> "none",     \* ClientContext.oauthSession
    leakT |-> FALSE,     \* a transport was left open with no reference to it
    leakS |-> FALSE,     \* an OAuth session was left open with no reference to it
    err |-> NoErr,       \* the error in flight, or the rejection reason
    invalAt |-> -1,      \* tokens issued when invalidateCredentials ran
    promos |-> 0,        \* promotions to OAuth made by this invocation
    first401 |-> FALSE ] \* the first client.connect of the cycle was answered 401

Open(st) == st = "open"

Settled(r) == r.pc \in {"ok", "closed", "failed"}
Rejected(r) == r.pc = "failed"

\* the transport connect is running over in the current phase
CurT(r) == IF r.via = "sse" THEN "sse" ELSE "t1"
SetCurT(r, st) == IF r.via = "sse" THEN [r EXCEPT !.sse = st] ELSE [r EXCEPT !.t1 = st]

\* the OAuth session connectWithAuth works with: the one passed in, else the
\* one it created on demand
InUse(r) == IF r.sess # "none" THEN "sess" ELSE IF r.od # "none" THEN "od" ELSE "none"
ListenerOpen(r) ==
  \/ InUse(r) = "sess" /\ r.sess = "open"
  \/ InUse(r) = "od" /\ r.od = "open"

\* FileOAuthClientProvider.close, through oauthSession?.close().catch()
CloseSess(r) ==
  IF r.sess = "open" THEN [r EXCEPT !.sess = "closed", !.defd = "null"] ELSE r


\* createClient has thrown e: its locals are gone, what it opened and did not
\* close stays open with no reference left to it
Thrown(r, e) ==
  [NewAttempt(r.name, r.def, r.max0, r.cached) EXCEPT
     !.pc = "failed", !.err = e, !.rounds = 0, !.first401 = r.first401,
     !.promos = r.promos,
     !.leakT = r.leakT \/ Open(r.t1) \/ Open(r.t2) \/ Open(r.sse),
     !.leakS = r.leakS \/ Open(r.sess) \/ Open(r.od)]

\* createClient has returned the ClientContext {client, transport,
\* definition, oauthSession}
Returned(r, conn, ctxT, ctxS) ==
  [r EXCEPT !.pc = "ok", !.conn = conn, !.ctxT = ctxT, !.ctxS = ctxS,
            !.rounds = 0, !.err = NoErr, !.invalAt = -1, !.defd = "null",
            !.via = IF r.via = "sse" THEN "stream" ELSE r.via]

\* the promise of createClient rejects; the connect that started it runs its
\* catch first: this.clients.delete(normalized)
Reject(a, r, e) ==
  /\ attempts' = [attempts EXCEPT ![a] = Thrown(r, e)]
  /\ clients' = IF r.cached THEN PoolDelete(clients, r.name) ELSE clients

\* a connectWithAuth invocation has ended by throwing: its locals newTransport
\* and oauthSession (when created on demand) go out of scope as they are
DropLocals(r) ==
  [r EXCEPT !.t2 = "none", !.od = "none",
            !.leakT = r.leakT \/ Open(r.t2),
            !.leakS = r.leakS \/ Open(r.od),
            !.defd = IF r.sess = "none" THEN "null" ELSE r.defd,
            !.invalAt = -1]

\* `continue`: the next pass of while (true) drops this pass's locals
NextPass(r) ==
  LET d == DropLocals(r) IN
  [d EXCEPT !.pc = "top", !.via = "stream", !.rounds = r.rounds + 1,
            !.err = NoErr,
            !.t1 = "none", !.sse = "none",
            !.leakT = d.leakT \/ Open(r.t1) \/ Open(r.sse)]

\* a pass that opens an OAuth session for every definition, stdio included
LoopTopWithSession(a) ==
  LET r == attempts[a] IN
  /\ r.pc = "top"
  /\ attempts' = [attempts EXCEPT ![a] =
        [r EXCEPT !.sess = "open", !.defd = "null", !.t1 = "open", !.pc = "connect"]]
  /\ UNCHANGED <<definitions, clients, calls, ncalls, returned, tokenFile, issued, regs>>

\* createClient, top of the pass: the stdio branch, or session and transport
\* of the HTTP branch
LoopTop(a) ==
  LET r == attempts[a] IN
  /\ r.pc = "top"
  /\ UNCHANGED <<definitions, calls, ncalls, returned, tokenFile, issued, regs>>
  /\ IF r.def.kind = "stdio"
     THEN /\ attempts' = [attempts EXCEPT ![a] = [r EXCEPT !.t1 = "open", !.pc = "connect"]]
          /\ UNCHANGED clients
     ELSE IF r.sess = "none" /\ (r.def.auth = "oauth" \/ isCraftUrl(r.def))
     THEN \/ /\ attempts' = [attempts EXCEPT ![a] =
                    [r EXCEPT !.sess = "open", !.defd = "null",
                              !.t1 = "open", !.pc = "connect"]]
             /\ UNCHANGED clients
          \/ Reject(a, r, ErrListen)
     ELSE /\ attempts' = [attempts EXCEPT ![a] = [r EXCEPT !.t1 = "open", !.pc = "connect"]]
          /\ UNCHANGED clients

\* a test that starts the OAuth flow whatever maxOAuthAttempts is
startsOAuthFlowAlways(e, max0) == isUnauthorizedError(e)

\* connectWithAuth: isUnauthorizedError(error) && transport.finishAuth &&
\* maxOAuthAttempts !== 0 (both HTTP transports have finishAuth)
startsOAuthFlow(e, max0) == isUnauthorizedError(e) /\ ~max0

\* connectWithAuth: await client.connect(transport) settles
ConnectOutcome(a) ==
  LET r == attempts[a]
      hasProvider == r.via # "stdio" /\ r.sess # "none"
      s == r
  IN
  /\ r.pc = "connect"
  /\ UNCHANGED <<definitions, calls, ncalls, returned, tokenFile, issued, regs>>
  /\ \/ /\ attempts' = [attempts EXCEPT ![a] =
               Returned(s, CurT(r), CurT(r), IF r.sess # "none" THEN "sess" ELSE "none")]
        /\ UNCHANGED clients
     \/ \E e \in {ErrConnect401, ErrConnectFailed} :
          LET \* the SDK calls provider.redirectToAuthorization before it
              \* raises the 401 of a transport that has a provider
              f == IF e = ErrConnect401 /\ hasProvider
                   THEN [s EXCEPT !.defd = "pending"] ELSE s
              g == IF e = ErrConnect401 /\ r.rounds = 1 /\ r.via = "stream"
                   THEN [f EXCEPT !.first401 = TRUE] ELSE f
          IN
          /\ r.via = "stdio" => e = ErrConnectFailed
          /\ IF r.via = "stdio"
             THEN Reject(a, g, e)
             ELSE /\ UNCHANGED clients
                  /\ attempts' = [attempts EXCEPT ![a] =
                       IF startsOAuthFlow(e, r.max0)
                       THEN [g EXCEPT !.pc = IF r.sess = "none" THEN "odSession"
                                             ELSE "invalidate"]
                       ELSE [g EXCEPT !.pc = "thrown", !.err = e]]

\* connectWithAuth: createOAuthSession on demand
OnDemandSession(a) ==
  LET r == attempts[a] IN
  /\ r.pc = "odSession"
  /\ UNCHANGED <<definitions, clients, calls, ncalls, returned, tokenFile, issued, regs>>
  /\ \/ attempts' = [attempts EXCEPT ![a] =
            [r EXCEPT !.od = "open", !.defd = "null", !.pc = "invalidate"]]
     \/ attempts' = [attempts EXCEPT ![a] = [r EXCEPT !.pc = "thrown", !.err = ErrListen]]

\* the four files of a credential directory: tokens.json, client.json,
\* code_verifier.txt, state.txt
Artifacts == {"tokens", "client", "verifier", "state"}
Scopes == {"all", "client", "tokens", "verifier"}

\* removals that take every file whatever the scope
removalsEverything(scope) == {"tokens", "client", "verifier"}

\* invalidateCredentials: the files pushed on `removals`
removals(scope) ==
  (IF scope \in {"all", "tokens"} THEN {"tokens"} ELSE {}) \cup
  (IF scope \in {"all", "client"} THEN {"client"} ELSE {}) \cup
  (IF scope \in {"all", "verifier"} THEN {"verifier"} ELSE {})

\* FileOAuthClientProvider.invalidateCredentials(scope), on tokens.json
\* an invalidation that clears the tokens for the scope 'tokens' only
invalidateCredentialsTokensOnly(file, scope) ==
  IF scope = "tokens" THEN 0 ELSE file

invalidateCredentials(file, scope) ==
  IF "tokens" \in removals(scope) THEN 0 ELSE file

\* a flow that connects over the new transport right after the invalidation,
\* with the first transport still open
InvalidateThenReconnect(a) ==
  LET r == attempts[a] IN
  /\ r.pc = "invalidate"
  /\ tokenFile' = [tokenFile EXCEPT ![r.name] = invalidateCredentials(@, "all")]
  /\ attempts' = [attempts EXCEPT ![a] = [r EXCEPT !.t2 = "open", !.pc = "reconnect", !.invalAt = issued]]
  /\ UNCHANGED <<definitions, clients, calls, ncalls, returned, issued, regs>>

\* connectWithAuth: await invalidateCredentials('all')
Invalidate(a) ==
  LET r == attempts[a] IN
  /\ r.pc = "invalidate"
  /\ tokenFile' = [tokenFile EXCEPT ![r.name] = invalidateCredentials(@, "all")]
  /\ attempts' = [attempts EXCEPT ![a] = [r EXCEPT !.pc = "closeOld", !.invalAt = issued]]
  /\ UNCHANGED <<definitions, clients, calls, ncalls, returned, issued, regs>>

\* connectWithAuth: await transport.close(), then newTransport and the
\* second client.connect starts
CloseOld(a) ==
  LET r == attempts[a]
      c == SetCurT(r, "closed")
  IN
  /\ r.pc = "closeOld"
  /\ attempts' = [attempts EXCEPT ![a] = [c EXCEPT !.t2 = "open", !.pc = "reconnect"]]
  /\ UNCHANGED <<definitions, clients, calls, ncalls, returned, tokenFile, issued, regs>>

\* connectWithAuth: await client.connect(newTransport) settles
ReconnectOutcome(a) ==
  LET r == attempts[a]
      s == r
  IN
  /\ r.pc = "reconnect"
  /\ UNCHANGED <<definitions, clients, calls, ncalls, returned, tokenFile, issued, regs>>
  /\ \/ attempts' = [attempts EXCEPT ![a] = Returned(s, "t2", CurT(r), InUse(r))]
     \* 401: redirectToAuthorization has run, waitForAuthorizationCode finds
     \* its deferred
     \/ attempts' = [attempts EXCEPT ![a] = [s EXCEPT !.defd = "pending", !.pc = "waitCode"]]
     \/ attempts' = [attempts EXCEPT ![a] = [s EXCEPT !.pc = "thrown", !.err = ErrConnectFailed]]

\* attachServer: a request on the callback path (code, error, or neither)
Callback(a, kind) ==
  LET r == attempts[a] IN
  /\ ListenerOpen(r)
  /\ r.defd = "pending"
  /\ attempts' = [attempts EXCEPT ![a] =
        IF r.pc = "waitCode"
        THEN IF kind = "code"
             THEN [r EXCEPT !.defd = "null", !.pc = "finishAuth"]
             ELSE [r EXCEPT !.defd = "null", !.pc = "thrown", !.err = ErrCallback]
        ELSE [r EXCEPT !.defd = "null"]]
  /\ UNCHANGED <<definitions, clients, calls, ncalls, returned, tokenFile, issued, regs>>

\* connectWithAuth: await newTransport.finishAuth(code) settles; on success
\* the SDK has called provider.saveTokens
FinishAuth(a) ==
  LET r == attempts[a] IN
  /\ r.pc = "finishAuth"
  /\ UNCHANGED <<definitions, clients, calls, ncalls, returned, regs>>
  /\ \/ /\ issued < MaxTokens
        /\ issued' = issued + 1
        /\ tokenFile' = [tokenFile EXCEPT ![r.name] = issued + 1]
        /\ attempts' = [attempts EXCEPT ![a] = [r EXCEPT !.pc = "thrown", !.err = ErrRefreshed]]
     \/ \E e \in {ErrExchange401, ErrExchangeFailed} :
          /\ attempts' = [attempts EXCEPT ![a] = [r EXCEPT !.pc = "thrown", !.err = e]]
          /\ UNCHANGED <<tokenFile, issued>>

\* createClient: catch of attemptConnect (closeTransportAndWait) and
\* catch (primaryError)
HandlePrimary(a) ==
  LET r == attempts[a]
      e == r.err
      c == [r EXCEPT !.t1 = "closed"]
      promoted == maybeEnableOAuth(r.def)
  IN
  /\ r.pc = "thrown" /\ r.via = "stream"
  /\ UNCHANGED <<calls, ncalls, returned, tokenFile, issued, regs>>
  /\ IF e = ErrRefreshed
     THEN /\ r.rounds < MaxRounds
          /\ attempts' = [attempts EXCEPT ![a] = NextPass(c)]
          /\ UNCHANGED <<definitions, clients>>
     ELSE IF isUnauthorizedError(e) /\ promoted # NoDef /\ ~r.max0
     THEN /\ r.rounds < MaxRounds
          /\ attempts' = [attempts EXCEPT ![a] = NextPass([c EXCEPT !.def = promoted, !.promos = @ + 1])]
          /\ definitions' = [definitions EXCEPT ![r.name] = promoted]
          /\ UNCHANGED clients
     ELSE LET d == IF isUnauthorizedError(e) \/ e = ErrTimeout \/ isCraftUrl(r.def)
                   THEN CloseSess(c) ELSE c
          IN
          /\ UNCHANGED definitions
          /\ IF e = ErrTimeout \/ isCraftUrl(r.def)
             THEN Reject(a, d, e)
             ELSE /\ attempts' = [attempts EXCEPT ![a] =
                       [DropLocals(d) EXCEPT !.sse = "open", !.via = "sse",
                                             !.pc = "connect", !.err = NoErr]]
                  /\ UNCHANGED clients

\* createClient: catch (sseError)
HandleSse(a) ==
  LET r == attempts[a]
      e == r.err
      c == CloseSess([r EXCEPT !.sse = "closed"])
      promoted == maybeEnableOAuth(r.def)
  IN
  /\ r.pc = "thrown" /\ r.via = "sse"
  /\ UNCHANGED <<calls, ncalls, returned, tokenFile, issued, regs>>
  /\ IF e # ErrTimeout /\ isUnauthorizedError(e) /\ ~r.max0 /\ promoted # NoDef
     THEN /\ r.rounds < MaxRounds
          /\ attempts' = [attempts EXCEPT ![a] = NextPass([c EXCEPT !.def = promoted, !.promos = @ + 1])]
          /\ definitions' = [definitions EXCEPT ![r.name] = promoted]
          /\ UNCHANGED clients
     ELSE /\ Reject(a, c, e)
          /\ UNCHANGED definitions

\* createClient, catch (primaryError): `continue` after
\* OAuthTokensRefreshedError in a pass the model no longer counts (the code
\* keeps no count of passes; rounds stays at MaxRounds)
ContinueRefreshed(a) ==
  LET r == attempts[a]
      c == [r EXCEPT !.t1 = "closed"]
  IN
  /\ r.pc = "thrown" /\ r.via = "stream"
  /\ r.err = ErrRefreshed
  /\ r.rounds = MaxRounds
  /\ attempts' = [attempts EXCEPT ![a] = [NextPass(c) EXCEPT !.rounds = MaxRounds]]
  /\ UNCHANGED <<definitions, clients, calls, ncalls, returned, tokenFile, issued, regs>>

\* connectWithAuth: await newTransport.finishAuth(code) succeeds once more
\* when the model no longer numbers the token pairs (the pair saved is
\* numbered MaxTokens)
FinishAuthAgain(a) ==
  LET r == attempts[a] IN
  /\ r.pc = "finishAuth"
  /\ issued = MaxTokens
  /\ tokenFile' = [tokenFile EXCEPT ![r.name] = MaxTokens]
  /\ attempts' = [attempts EXCEPT ![a] = [r EXCEPT !.pc = "thrown", !.err = ErrRefreshed]]
  /\ UNCHANGED <<definitions, clients, calls, ncalls, returned, issued, regs>>

\* ------------------------------------------------------------------- calls
\* One record per call of the Runtime interface that is suspended at an await.
NewCall(op, n, a, pc) == [op |-> op, name |-> n, att |-> a, pc |-> pc]

\* what a call delivered: "ok" or the error it threw
Outcome(op, n, a, res) == [op |-> op, name |-> n, att |-> a, res |-> res]
NoOutcome == Outcome("none", <<>>, 0, NoErr)

RemoveAt(q, i) == SubSeq(q, 1, i - 1) \o SubSeq(q, i + 1, Len(q))

\* a suspended call returns or throws
Finish(c, res) ==
  /\ calls' = RemoveAt(calls, c)
  /\ returned' = Outcome(calls[c].op, calls[c].name, calls[c].att, res)

\* McpRuntime.connect up to its first await, as called by callTool (auto) and
\* listTools (autoAuthorize): cache lookup, definition lookup, createClient,
\* this.clients.set
connect(op, auto, server) ==
  LET normalized == Trim(server)
      existing == PoolGet(clients, normalized)
      definition == DefGet(definitions, normalized)
      a == Len(attempts) + 1
  IN
  /\ ncalls < MaxCalls
  /\ ncalls' = ncalls + 1
  /\ UNCHANGED <<definitions, tokenFile, issued, regs>>
  /\ IF existing # 0
     THEN /\ calls' = Append(calls, NewCall(op, normalized, existing, "await"))
          /\ UNCHANGED <<attempts, clients, returned>>
     ELSE IF definition = NoDef
     THEN /\ returned' = Outcome(op, normalized, 0, ErrUnknownServer)
          /\ UNCHANGED <<attempts, clients, calls>>
     ELSE /\ Len(attempts) < MaxAttempts
          /\ attempts' = Append(attempts, NewAttempt(normalized, definition, ~auto, TRUE))
          /\ clients' = PoolSet(clients, normalized, a)
          /\ calls' = Append(calls, NewCall(op, normalized, a, "await"))
          /\ UNCHANGED returned

callTool(server) == connect("callTool", TRUE, server)
listTools(server, autoAuthorize) == connect("listTools", autoAuthorize, server)

\* connect: const useCache = options.skipCache !== true
useCache(skipCache) == skipCache # TRUE

\* McpRuntime.connect called on its own with { maxOAuthAttempts, skipCache },
\* up to its first await
connectWith(server, auto, skipCache) ==
  LET normalized == Trim(server)
      existing == IF useCache(skipCache) THEN PoolGet(clients, normalized) ELSE 0
      definition == DefGet(definitions, normalized)
      a == Len(attempts) + 1
  IN
  /\ ncalls < MaxCalls
  /\ ncalls' = ncalls + 1
  /\ UNCHANGED <<definitions, tokenFile, issued, regs>>
  /\ IF existing # 0
     THEN /\ calls' = Append(calls, NewCall("connect", normalized, existing, "await"))
          /\ UNCHANGED <<attempts, clients, returned>>
     ELSE IF definition = NoDef
     THEN /\ returned' = Outcome("connect", normalized, 0, ErrUnknownServer)
          /\ UNCHANGED <<attempts, clients, calls>>
     ELSE /\ Len(attempts) < MaxAttempts
          /\ attempts' = Append(attempts,
                 NewAttempt(normalized, definition, ~auto, useCache(skipCache)))
          /\ clients' = IF useCache(skipCache) THEN PoolSet(clients, normalized, a)
                        ELSE clients
          /\ calls' = Append(calls, NewCall("connect", normalized, a, "await"))
          /\ UNCHANGED returned

\* connect after await connection: the ClientContext, or the error
ResumeConnect(c) ==
  LET k == calls[c]
      r == attempts[k.att]
  IN
  /\ k.op = "connect" /\ k.pc = "await"
  /\ Settled(r)
  /\ UNCHANGED <<definitions, clients, attempts, ncalls, tokenFile, issued, regs>>
  /\ Finish(c, IF Rejected(r) THEN r.err ELSE "ok")

\* callTool / listTools after await this.connect(...): the error of the
\* attempt, or the outcome of the request sent over the client
Resume(c) ==
  LET k == calls[c]
      r == attempts[k.att]
  IN
  /\ k.op \in {"callTool", "listTools"} /\ k.pc = "await"
  /\ Settled(r)
  /\ UNCHANGED <<definitions, clients, attempts, ncalls, tokenFile, issued, regs>>
  /\ IF Rejected(r)
     THEN Finish(c, r.err)
     ELSE \E res \in {"ok", ErrTool} : Finish(c, res)

\* the three closes of a ClientContext: client.close() (which closes the
\* transport the client is connected over), closeTransportAndWait(
\* context.transport), context.oauthSession?.close()
CloseT(r, t) ==
  IF t = "t1" /\ r.t1 = "open" THEN [r EXCEPT !.t1 = "closed"]
  ELSE IF t = "t2" /\ r.t2 = "open" THEN [r EXCEPT !.t2 = "closed"]
  ELSE IF t = "sse" /\ r.sse = "open" THEN [r EXCEPT !.sse = "closed"]
  ELSE r

\* a teardown that closes the recorded transport and the OAuth session only
TeardownRecorded(r) ==
  LET x == CloseT(r, r.ctxT)
      y == IF r.ctxS = "sess" /\ x.sess = "open" THEN [x EXCEPT !.sess = "closed", !.defd = "null"]
           ELSE IF r.ctxS = "od" /\ x.od = "open" THEN [x EXCEPT !.od = "closed", !.defd = "null"]
           ELSE x
  IN [y EXCEPT !.pc = "closed"]

Teardown(r) ==
  LET x == CloseT(CloseT(r, r.conn), r.ctxT)
      y == IF r.ctxS = "sess" /\ x.sess = "open" THEN [x EXCEPT !.sess = "closed", !.defd = "null"]
           ELSE IF r.ctxS = "od" /\ x.od = "open" THEN [x EXCEPT !.od = "closed", !.defd = "null"]
           ELSE x
  IN [y EXCEPT !.pc = "closed"]

\* close(server) up to await this.clients.get(normalized)
closeOne(server) ==
  LET normalized == Trim(server)
      existing == PoolGet(clients, normalized)
  IN
  /\ ncalls < MaxCalls
  /\ ncalls' = ncalls + 1
  /\ UNCHANGED <<definitions, clients, attempts, tokenFile, issued, regs>>
  /\ IF existing = 0
     THEN /\ returned' = Outcome("close", normalized, 0, "ok")
          /\ UNCHANGED calls
     ELSE /\ calls' = Append(calls, NewCall("close", normalized, existing, "await"))
          /\ UNCHANGED returned

\* close(): the first entry of this.clients.entries()
closeAll ==
  /\ ncalls < MaxCalls
  /\ ncalls' = ncalls + 1
  /\ UNCHANGED <<definitions, clients, attempts, tokenFile, issued, regs>>
  /\ IF clients = <<>>
     THEN /\ returned' = Outcome("closeAll", <<>>, 0, "ok")
          /\ UNCHANGED calls
     ELSE /\ calls' = Append(calls,
                  NewCall("closeAll", Head(clients)[1], Head(clients)[2], "await"))
          /\ UNCHANGED returned

\* close: the awaited promise has settled; the context is torn down, or the
\* rejection leaves close (through finally { this.clients.delete(name) } in
\* the loop of close())
CloseTeardown(c) ==
  LET k == calls[c]
      r == attempts[k.att]
  IN
  /\ k.op \in {"close", "closeAll"} /\ k.pc = "await"
  /\ Settled(r)
  /\ UNCHANGED <<definitions, ncalls, tokenFile, issued, regs>>
  /\ IF Rejected(r)
     THEN /\ Finish(c, r.err)
          /\ clients' = IF k.op = "closeAll" THEN PoolDelete(clients, k.name) ELSE clients
          /\ UNCHANGED attempts
     ELSE /\ attempts' = [attempts EXCEPT ![k.att] = Teardown(r)]
          /\ calls' = [calls EXCEPT ![c] = [@ EXCEPT !.pc = "delete"]]
          /\ UNCHANGED <<clients, returned>>

\* close: this.clients.delete(name) after the last await; close() goes on
\* with the next entry of the iterator
CloseDelete(c) ==
  LET k == calls[c]
      pool == PoolDelete(clients, k.name)
  IN
  /\ k.op \in {"close", "closeAll"} /\ k.pc = "delete"
  /\ clients' = pool
  /\ UNCHANGED <<definitions, attempts, ncalls, tokenFile, issued, regs>>
  /\ IF k.op = "closeAll" /\ pool # <<>>
     THEN /\ calls' = [calls EXCEPT ![c] =
               [@ EXCEPT !.name = Head(pool)[1], !.att = Head(pool)[2], !.pc = "await"]]
          /\ UNCHANGED returned
     ELSE Finish(c, "ok")

\* craftCallOnce (craft-runtime): a runtime of its own with the one
\* definition of the connection, callTool, and runtime.close(name) in finally.
\* Up to the first await of callTool.
craftCallOnce(connection) ==
  /\ calls = <<>> /\ clients = <<>>
  /\ connect("craftCallOnce", TRUE, connection)

\* a finally block that returns what close returned
finallyReturnsClose(res, closeRes) == closeRes

\* try { return await callTool } finally { await runtime.close(name) }: an
\* error thrown by close replaces the completion of the try block
finallyCompletion(res, closeRes) == IF closeRes # "ok" THEN closeRes ELSE res

\* craftCallOnce after await runtime.callTool(...): the result or the error
\* is kept while finally runs
OnceResume(c) ==
  LET k == calls[c]
      r == attempts[k.att]
  IN
  /\ k.op = "craftCallOnce" /\ k.pc = "await"
  /\ Settled(r)
  /\ UNCHANGED <<definitions, clients, attempts, ncalls, returned, tokenFile, issued, regs>>
  /\ \E res \in (IF Rejected(r) THEN {r.err} ELSE {"ok", ErrTool}) :
       calls' = [calls EXCEPT ![c] =
         [op |-> k.op, name |-> k.name, att |-> k.att, pc |-> "finally",
          res |-> res, closeRes |-> "ok", closes |-> 0]]

\* finally: runtime.close(serverDef.name) up to await this.clients.get(normalized)
OnceFinally(c) ==
  LET k == calls[c]
      existing == PoolGet(clients, Trim(k.name))
  IN
  /\ k.op = "craftCallOnce" /\ k.pc = "finally"
  /\ UNCHANGED <<definitions, clients, attempts, ncalls, returned, tokenFile, issued, regs>>
  /\ calls' = [calls EXCEPT ![c] =
       [@ EXCEPT !.closes = @ + 1, !.att = existing,
                 !.pc = IF existing = 0 THEN "closed" ELSE "teardown"]]

\* close(name): the pooled promise has settled; the three closes of its context
OnceTeardown(c) ==
  LET k == calls[c]
      r == attempts[k.att]
  IN
  /\ k.op = "craftCallOnce" /\ k.pc = "teardown"
  /\ Settled(r)
  /\ UNCHANGED <<definitions, clients, ncalls, returned, tokenFile, issued, regs>>
  /\ IF Rejected(r)
     THEN /\ calls' = [calls EXCEPT ![c] = [@ EXCEPT !.closeRes = r.err, !.pc = "closed"]]
          /\ UNCHANGED attempts
     ELSE /\ attempts' = [attempts EXCEPT ![k.att] = Teardown(r)]
          /\ calls' = [calls EXCEPT ![c] = [@ EXCEPT !.pc = "delete"]]

\* close(name): this.clients.delete(normalized)
OnceDelete(c) ==
  LET k == calls[c] IN
  /\ k.op = "craftCallOnce" /\ k.pc = "delete"
  /\ clients' = PoolDelete(clients, Trim(k.name))
  /\ calls' = [calls EXCEPT ![c] = [@ EXCEPT !.pc = "closed"]]
  /\ UNCHANGED <<definitions, attempts, ncalls, returned, tokenFile, issued, regs>>

\* craftCallOnce returns or throws once finally is through
OnceReturn(c) ==
  LET k == calls[c] IN
  /\ k.op = "craftCallOnce" /\ k.pc = "closed"
  /\ UNCHANGED <<definitions, clients, attempts, ncalls, tokenFile, issued, regs>>
  /\ Finish(c, finallyCompletion(k.res, k.closeRes))

\* handleCall (cli/call-command) on the runtime of the command: attemptCall
\* races runtime.callTool against the call timeout.  pc of the call: "await"
\* and "tool" (callTool connecting, then waiting for the tool's answer),
\* "await2" and "tool2" (the same for the one corrected retry), "closing",
\* "delete" and "throw" (the timeout has fired: runtime.close(server), then
\* the error).  Up to the first await of callTool.
handleCall(server) ==
  /\ calls = <<>> /\ clients = <<>>
  /\ connect("handleCall", TRUE, server)

\* callTool after await this.connect(server): the error of the attempt
\* leaves attemptCall, or the request is sent over the client
HandleCallSend(c) ==
  LET k == calls[c]
      r == attempts[k.att]
  IN
  /\ k.op = "handleCall" /\ k.pc \in {"await", "await2"}
  /\ Settled(r)
  /\ UNCHANGED <<definitions, clients, attempts, ncalls, tokenFile, issued, regs>>
  /\ IF Rejected(r)
     THEN Finish(c, r.err)
     ELSE /\ calls' = [calls EXCEPT ![c] = [@ EXCEPT !.pc = IF k.pc = "await" THEN "tool" ELSE "tool2"]]
          /\ UNCHANGED returned

\* the tool answers in time: the result is printed, or the error is thrown;
\* for a tool the server does not know, attemptCall may run once more with
\* the closest name (allowCorrection), over the pooled session
HandleCallOutcome(c) ==
  LET k == calls[c] IN
  /\ k.op = "handleCall" /\ k.pc \in {"tool", "tool2"}
  /\ UNCHANGED <<definitions, clients, attempts, ncalls, tokenFile, issued, regs>>
  /\ \/ \E res \in {"ok", ErrTool} : Finish(c, res)
     \/ /\ k.pc = "tool"
        /\ PoolGet(clients, k.name) = k.att
        /\ calls' = [calls EXCEPT ![c] = [@ EXCEPT !.pc = "await2"]]
        /\ UNCHANGED returned

\* withTimeout: the timer fires before callTool has settled and rejects with
\* Error('Timeout'); the catch of attemptCall runs runtime.close(server) up
\* to await this.clients.get(normalized)
HandleCallTimeout(c) ==
  LET k == calls[c]
      existing == PoolGet(clients, Trim(k.name))
  IN
  /\ k.op = "handleCall" /\ k.pc \in {"await", "tool", "await2", "tool2"}
  /\ UNCHANGED <<definitions, clients, attempts, ncalls, returned, tokenFile, issued, regs>>
  /\ calls' = [calls EXCEPT ![c] =
       [@ EXCEPT !.att = existing, !.pc = IF existing = 0 THEN "throw" ELSE "closing"]]

\* runtime.close(server).catch(() => {}): the pooled promise has settled; its
\* context is torn down, or its rejection is swallowed
HandleCallTeardown(c) ==
  LET k == calls[c]
      r == attempts[k.att]
  IN
  /\ k.op = "handleCall" /\ k.pc = "closing"
  /\ Settled(r)
  /\ UNCHANGED <<definitions, clients, ncalls, returned, tokenFile, issued, regs>>
  /\ IF Rejected(r)
     THEN /\ calls' = [calls EXCEPT ![c] = [@ EXCEPT !.pc = "throw"]]
          /\ UNCHANGED attempts
     ELSE /\ attempts' = [attempts EXCEPT ![k.att] = Teardown(r)]
          /\ calls' = [calls EXCEPT ![c] = [@ EXCEPT !.pc = "delete"]]

\* close(server): this.clients.delete(normalized)
HandleCallDelete(c) ==
  LET k == calls[c] IN
  /\ k.op = "handleCall" /\ k.pc = "delete"
  /\ clients' = PoolDelete(clients, Trim(k.name))
  /\ calls' = [calls EXCEPT ![c] = [@ EXCEPT !.pc = "throw"]]
  /\ UNCHANGED <<definitions, attempts, ncalls, returned, tokenFile, issued, regs>>

\* throw new Error(`Call to ${server}.${tool} timed out after ${timeoutMs}ms. ...`)
HandleCallThrow(c) ==
  LET k == calls[c] IN
  /\ k.op = "handleCall" /\ k.pc = "throw"
  /\ UNCHANGED <<definitions, clients, attempts, ncalls, tokenFile, issued, regs>>
  /\ Finish(c, ErrCallTimedOut)

\* registerDefinition(definition, { overwrite }): the test that makes it throw
alreadyExistsNever(defs, name, overwrite) == FALSE

alreadyExists(defs, name, overwrite) == ~overwrite /\ defs[name] # NoDef

\* registerDefinition(definition, { overwrite }), synchronous: it returns or
\* throws in the step that calls it
registerDefinition(name, def, overwrite) ==
  /\ regs < MaxRegs
  /\ regs' = regs + 1
  /\ UNCHANGED <<attempts, calls, ncalls, tokenFile, issued>>
  /\ IF alreadyExists(definitions, name, overwrite)
     THEN /\ returned' = Outcome("registerDefinition", name, 0, ErrAlreadyExists)
          /\ UNCHANGED <<definitions, clients>>
     ELSE /\ definitions' = [definitions EXCEPT ![name] = def]
          /\ clients' = PoolDelete(clients, name)
          /\ returned' = Outcome("registerDefinition", name, 0, "ok")


\* names of the servers a runtime may be constructed with when it lists them
ListNames == { <<"a">>, <<"a", "b">>, <<"b">>, W }

\* the letters of those names in the order of the alphabet
Letters == <<"a", "b", "w", "x">>
Rank(ch) == CHOOSE i \in 1..Len(Letters) : Letters[i] = ch

\* a.localeCompare(b) for names of lower-case letters: the first differing
\* letter decides, and a proper prefix comes first
RECURSIVE localeCompare(_, _)
localeCompare(a, b) ==
  IF a = <<>> /\ b = <<>> THEN 0
  ELSE IF a = <<>> THEN -1
  ELSE IF b = <<>> THEN 1
  ELSE IF Rank(Head(a)) < Rank(Head(b)) THEN -1
  ELSE IF Rank(Head(a)) > Rank(Head(b)) THEN 1
  ELSE localeCompare(Tail(a), Tail(b))

\* a listing that leaves the keys in the order of insertion
unsorted(keys) == keys

RECURSIVE insertSorted(_, _)
insertSorted(k, q) ==
  IF q = <<>> THEN <<k>>
  ELSE IF localeCompare(k, Head(q)) <= 0 THEN <<k>> \o q
  ELSE <<Head(q)>> \o insertSorted(k, Tail(q))

RECURSIVE sort(_)
\* keys.sort((a, b) => a.localeCompare(b))
sort(keys) == IF keys = <<>> THEN <<>> ELSE insertSorted(Head(keys), sort(Tail(keys)))

\* the names the table holds a definition for
Keys(defs) == {n \in DOMAIN defs : defs[n] # NoDef}

\* [...this.definitions.keys()]: the keys in the order they were inserted in,
\* which may be any
KeyOrders(defs) ==
  {q \in [1..Cardinality(Keys(defs)) -> Keys(defs)] :
     \A i, j \in DOMAIN q : i # j => q[i] # q[j]}

\* listServers()
listServers ==
  /\ \E keys \in KeyOrders(definitions) : fn' = [op |-> "listServers", in |-> keys, out |-> sort(keys)]
  /\ UNCHANGED <<definitions, clients, attempts, calls, ncalls, returned, tokenFile, issued, regs, prov,
               config>>

\* ----------------------------------------------------------- OAuth provider
\* One FileOAuthClientProvider on its own: the callback listener, the
\* authorization deferred and the credential files.
NULL == "<null>"                      \* null / undefined
Truthy(v) == v # NULL /\ v # ""       \* if (v) for a string or null

CALLBACK_PATH == <<"/", "c", "a", "l", "l", "b", "a", "c", "k">>
StartsWith(s, p) == Len(s) >= Len(p) /\ SubSeq(s, 1, Len(p)) = p

\* pathname of definition.oauthRedirectUrl and of the registered redirect URI
\* (<<>>: there is none)
RedirectPathnames == {<<>>, <<"/">>, <<"/", "c", "b">>, CALLBACK_PATH \o <<"/", "x">>}

\* create: callbackPath, which becomes the pathname of redirectUrl; the
\* registered redirect URI is looked at only when there is no override
callbackPath(overridePathname, existingPathname) ==
  LET existingUrl == IF overridePathname = <<>> THEN existingPathname ELSE <<>> IN
  IF overridePathname # <<>> /\ overridePathname # <<"/">> THEN overridePathname
  ELSE IF existingUrl # <<>> /\ existingUrl # <<"/">> THEN existingUrl
  ELSE CALLBACK_PATH

\* a promise: <<"pending">>, <<"resolved", code>>, <<"rejected", message...>>
Pending == <<"pending">>
MissingCode == "Missing authorization code"

NoOp == [op |-> "none", arg |-> NULL, res |-> NULL, responses |-> 0]
Did(op, arg, res, responses) == [op |-> op, arg |-> arg, res |-> res, responses |-> responses]

NewProvider(path) ==
  [ path |-> path,              \* redirectUrlValue.pathname
    server |-> "listening",     \* this.server
    deferred |-> 0,             \* authorizationDeferred: 0 is null, else its promise
    promises |-> <<>>,          \* the promises createDeferred made
    waiter |-> 0,               \* the promise a caller of waitForAuthorizationCode awaits
    files |-> [a \in Artifacts |-> "absent"],
    last |-> NoOp ]             \* the last operation and what it gave

\* this.authorizationDeferred?.resolve / reject, then = null
Settle(p, outcome) ==
  IF p.deferred = 0 THEN p
  ELSE [p EXCEPT !.promises[p.deferred] = IF @ = Pending THEN outcome ELSE @,
                 !.deferred = 0]

Requests ==
  [ path : {CALLBACK_PATH, <<"/", "c", "b">>, CALLBACK_PATH \o <<"/", "x">>, <<"/">>},
    code : {NULL, "", "ABC"},
    error : {NULL, "", "access_denied"} ]

\* attachServer: server.on('request', ...)
onRequest(p, q) ==
  IF ~StartsWith(q.path, CALLBACK_PATH)
  THEN [p EXCEPT !.last = Did("request", NULL, "404", 1)]
  ELSE IF Truthy(q.code)
  THEN [Settle(p, <<"resolved", q.code>>) EXCEPT !.last = Did("request", NULL, "200", 1)]
  ELSE IF Truthy(q.error)
  THEN [Settle(p, <<"rejected", "OAuth error: ", q.error>>) EXCEPT
          !.last = Did("request", NULL, "400", 1)]
  ELSE [Settle(p, <<"rejected", MissingCode>>) EXCEPT !.last = Did("request", NULL, "400", 1)]

ProvRequest(q) ==
  /\ prov.server = "listening"
  /\ prov' = onRequest(prov, q)
  /\ UNCHANGED <<rvars, fn, config>>

\* redirectToAuthorization: a new deferred replaces the one there was
redirectToAuthorization ==
  /\ Len(prov.promises) < MaxDeferred
  /\ prov' = [prov EXCEPT !.promises = Append(@, Pending),
                          !.deferred = Len(prov.promises) + 1,
                          !.last = Did("redirectToAuthorization", NULL, "ok", 0)]
  /\ UNCHANGED <<rvars, fn, config>>

\* waitForAuthorizationCode: the caller awaits the promise of the deferred,
\* created here when there is none
waitForAuthorizationCode ==
  /\ prov.waiter = 0
  /\ IF prov.deferred = 0
     THEN /\ Len(prov.promises) < MaxDeferred
          /\ prov' = [prov EXCEPT !.promises = Append(@, Pending),
                                  !.deferred = Len(prov.promises) + 1,
                                  !.waiter = Len(prov.promises) + 1,
                                  !.last = Did("waitForAuthorizationCode", NULL, "ok", 0)]
     ELSE prov' = [prov EXCEPT !.waiter = prov.deferred,
                               !.last = Did("waitForAuthorizationCode", NULL, "ok", 0)]
  /\ UNCHANGED <<rvars, fn, config>>

\* FileOAuthClientProvider.close: the deferred is dropped, the server closed
provider_close ==
  /\ prov' = [prov EXCEPT !.deferred = 0, !.server = "closed",
                          !.last = Did("close", NULL, "ok", 0)]
  /\ UNCHANGED <<rvars, fn, config>>

\* saveTokens, saveClientInformation, saveCodeVerifier
saveArtifact(art) ==
  /\ art \in {"tokens", "client", "verifier"}
  /\ prov' = [prov EXCEPT !.files[art] = "present", !.last = Did("save", art, "ok", 0)]
  /\ UNCHANGED <<rvars, fn, config>>

\* readJsonFile: undefined when the file does not exist
readJsonFile(file) == IF file = "absent" THEN "undefined" ELSE "value"

\* fs.readFile rejects with ENOENT when the file does not exist
readFile(file) == IF file = "absent" THEN "ENOENT" ELSE "value"

\* tokens(), clientInformation(), codeVerifier(), state()
readArtifact(art) ==
  /\ art \in Artifacts
  /\ prov' =
       IF art = "verifier"
       THEN [prov EXCEPT !.last = Did("read", art, readFile(prov.files[art]), 0)]
       ELSE IF art = "state" /\ readJsonFile(prov.files[art]) = "undefined"
       THEN [prov EXCEPT !.files[art] = "present", !.last = Did("read", art, "value", 0)]
       ELSE [prov EXCEPT !.last = Did("read", art, readJsonFile(prov.files[art]), 0)]
  /\ UNCHANGED <<rvars, fn, config>>

\* invalidateCredentials(scope): unlink every removal, ENOENT ignored
invalidateScope(scope) ==
  /\ prov' = [prov EXCEPT
                !.files = [a \in Artifacts |-> IF a \in removals(scope) THEN "absent" ELSE @[a]],
                !.last = Did("invalidateCredentials", scope, "ok", 0)]
  /\ UNCHANGED <<rvars, fn, config>>


\* --------------------------------------------------------- discovery client
\* An optional value: None is undefined / null.
Some(v) == [def |-> TRUE, v |-> v]
None == [def |-> FALSE, v |-> <<>>]

\* scope strings are sequences of characters, scope lists sequences of those
RECURSIVE SplitSpace(_)
\* s.split(' ')
SplitSpace(s) ==
  IF \A i \in 1..Len(s) : s[i] # " " THEN <<s>>
  ELSE LET i == CHOOSE j \in 1..Len(s) : s[j] = " " /\ \A k \in 1..(j - 1) : s[k] # " "
       IN <<SubSeq(s, 1, i - 1)>> \o SplitSpace(SubSeq(s, i + 1, Len(s)))

NonEmpty(t) == Len(t) > 0

\* a selection that prefers the protected resource's scopes to the
\* authorization server's
selectScopesResourceFirst(options) ==
  IF options.challengedScope.def /\ options.challengedScope.v # <<>>
  THEN Some(SelectSeq(SplitSpace(options.challengedScope.v), NonEmpty))
  ELSE IF options.protectedResourceScopes.def /\ Len(options.protectedResourceScopes.v) > 0
  THEN options.protectedResourceScopes
  ELSE IF options.scopesSupported.def /\ Len(options.scopesSupported.v) > 0
  THEN options.scopesSupported
  ELSE None

selectScopes(options) ==
  IF options.challengedScope.def /\ options.challengedScope.v # <<>>
  THEN Some(SelectSeq(SplitSpace(options.challengedScope.v), NonEmpty))
  ELSE IF options.scopesSupported.def /\ Len(options.scopesSupported.v) > 0
  THEN options.scopesSupported
  ELSE IF options.protectedResourceScopes.def /\ Len(options.protectedResourceScopes.v) > 0
  THEN options.protectedResourceScopes
  ELSE None

\* what a well-known URL answers to the GET
Answers == {"json", "badjson", "non2xx", "neterror"}

\* a URL string: whether new URL() accepts it, and the pathname it parses to
Urls == [wellFormed : BOOLEAN, pathname : {<<"/">>, <<"/", "m">>, <<"/", "m", "/">>}]

buildProtectedResourceWellKnownPaths(serverUrl) ==
  (IF serverUrl.pathname # <<>> /\ serverUrl.pathname # <<"/">>
   THEN << <<"oauth-protected-resource", serverUrl.pathname>> >> ELSE <<>>)
  \o << <<"oauth-protected-resource", <<>> >> >>

\* pathname.replace(/\/$/, '')
StripTrailingSlash(path) ==
  IF Len(path) > 0 /\ path[Len(path)] = "/" THEN SubSeq(path, 1, Len(path) - 1) ELSE path

buildAuthorizationServerWellKnownPaths(issuerUrl) ==
  LET pathComponent == StripTrailingSlash(issuerUrl.pathname) IN
  IF pathComponent # <<>>
  THEN << <<"oauth-authorization-server", pathComponent>>,
          <<"openid-configuration", pathComponent>>,
          <<"openid-configuration-appended", pathComponent>> >>
  ELSE << <<"oauth-authorization-server", <<>> >>, <<"openid-configuration", <<>> >> >>

Nil == <<"nil">>
Threw == <<"throws", "TypeError: Invalid URL">>

RECURSIVE probe(_, _, _)
\* for (const url of wellKnownPaths) { try { fetch; if ok return json } catch {} }
\* answers[i] is what candidate i answers
probe(wellKnownPaths, answers, i) ==
  IF i > Len(wellKnownPaths) THEN Nil
  ELSE IF answers[i] = "json" THEN <<"metadata", i, wellKnownPaths[i]>>
  ELSE probe(wellKnownPaths, answers, i + 1)

discoverProtectedResourceMetadata(serverUrl, answers) ==
  probe(buildProtectedResourceWellKnownPaths(serverUrl), answers, 1)

discoverAuthorizationServerMetadata(issuerUrl, answers) ==
  IF ~issuerUrl.wellFormed THEN Threw
  ELSE probe(buildAuthorizationServerWellKnownPaths(issuerUrl), answers, 1)

\* the scope lists a metadata document can carry
ScopeLists == {None, Some(<<>>), Some(<< <<"a">>, <<"b">> >>), Some(<< <<"c">> >>)}

RECURSIVE Join(_)
\* selectedScopes.join(' ')
Join(tokens) ==
  IF tokens = <<>> THEN <<>>
  ELSE IF Len(tokens) = 1 THEN tokens[1]
  ELSE tokens[1] \o <<" ">> \o Join(Tail(tokens))

\* discoverOAuthScope, given what the two discoveries gave: the protected
\* resource metadata found or not with its authorization_servers and
\* scopes_supported, the answer of discoverAuthorizationServerMetadata and the
\* scopes_supported of that metadata
discoverOAuthScope(d) ==
  IF d.resource = Nil THEN None
  ELSE IF ~d.authorization_servers.def \/ Len(d.authorization_servers.v) = 0 THEN None
  ELSE IF d.authorization_servers.v[1] = "" THEN None
  ELSE IF d.authServer = Threw THEN None
  ELSE IF d.authServer = Nil THEN None
  ELSE LET selectedScopes == selectScopes([challengedScope |-> None,
                                           scopesSupported |-> d.scopes_supported,
                                           protectedResourceScopes |-> d.resource_scopes])
       IN IF ~selectedScopes.def \/ Len(selectedScopes.v) = 0 THEN None
          ELSE Some(Join(selectedScopes.v))

DEFAULT_SCOPE == <<"m", "c", "p", ":", "t", "o", "o", "l", "s">>

\* FileOAuthClientProvider constructor: metadata.scope = scopeOverride ?? 'mcp:tools'
clientMetadataScope(scopeOverride) ==
  IF scopeOverride.def THEN scopeOverride ELSE Some(DEFAULT_SCOPE)

Discoveries ==
  [ resource : {Nil, <<"metadata", 1, <<"oauth-protected-resource", <<>> >> >>},
    authorization_servers : {None, Some(<<>>), Some(<<"">>), Some(<<"issuer">>)},
    resource_scopes : ScopeLists,
    authServer : {Nil, Threw, <<"metadata", 1, <<"oauth-authorization-server", <<>> >> >>},
    scopes_supported : ScopeLists ]

NoApp == [op |-> "none", in |-> <<>>, out |-> <<>>]
App(op, in, out) == [op |-> op, in |-> in, out |-> out]

ChallengedScopes ==
  {None} \cup {Some(c) : c \in UNION {[1..n -> {"a", "b", " "}] : n \in 0..MaxScopeLen}}

ScopeOptions ==
  [ challengedScope : ChallengedScopes,
    scopesSupported : ScopeLists,
    protectedResourceScopes : ScopeLists \ {Some(<<>>)} ]

CallSelectScopes ==
  /\ \E options \in ScopeOptions : fn' = App("selectScopes", options, selectScopes(options))
  /\ UNCHANGED <<rvars, prov, config>>

CallDiscoverProtectedResourceMetadata ==
  /\ \E u \in Urls, answers \in [1..2 -> Answers] :
       /\ u.wellFormed
       /\ fn' = App("discoverProtectedResourceMetadata", <<u, answers>>,
                    discoverProtectedResourceMetadata(u, answers))
  /\ UNCHANGED <<rvars, prov, config>>

CallDiscoverAuthorizationServerMetadata ==
  /\ \E u \in Urls, answers \in [1..3 -> Answers] :
       /\ fn' = App("discoverAuthorizationServerMetadata", <<u, answers>>,
                    discoverAuthorizationServerMetadata(u, answers))
  /\ UNCHANGED <<rvars, prov, config>>

\* FileOAuthClientProvider.create: discoverOAuthScope, then the constructor
CallCreate ==
  /\ \E d \in Discoveries :
       fn' = App("create", d, clientMetadataScope(discoverOAuthScope(d)))
  /\ UNCHANGED <<rvars, prov, config>>

\* ------------------------------------------------- WWW-Authenticate header
\* parseWWWAuthenticateHeader over headers written out character by character
QUOTE == "\""

BearerScheme == <<"B", "e", "a", "r", "e", "r">>
LowerBearerScheme == <<"b", "e", "a", "r", "e", "r">>
BasicScheme == <<"B", "a", "s", "i", "c">>
ResourceMetadataKey == <<"r", "e", "s", "o", "u", "r", "c", "e", "_", "m", "e", "t", "a", "d", "a", "t", "a">>
ScopeKey == <<"s", "c", "o", "p", "e">>
ExtensionScopeKey == <<"x", "-", "s", "c", "o", "p", "e">>

\* the schemes, parameter names, quoted values and separators the headers
\* are written with
ChallengeSchemes == {BearerScheme, LowerBearerScheme, BasicScheme}
ParamKeys == {ResourceMetadataKey, ScopeKey, ExtensionScopeKey}
ParamValues == { <<>>, <<"a">>, <<"a", " ", "b">>, <<"a", " ", " ", "b">>, <<"h", "t", "t", "p", "s", ":", "/", "/", "x", "/", "y">> }
ParamSeparators == { <<",", " ">>, <<" ">> }

\* the auth-params of a header, each name at most once
ParamLists ==
  {q \in UNION {[1..n -> [key : ParamKeys, value : ParamValues]] : n \in 0..MaxParams} :
     \A i, j \in DOMAIN q : i # j => q[i].key # q[j].key}

\* key="value"
ParamText(prm) == prm.key \o <<"=", QUOTE>> \o prm.value \o <<QUOTE>>

RECURSIVE ParamsText(_, _)
ParamsText(params, sep) ==
  IF params = <<>> THEN <<>>
  ELSE IF Len(params) = 1 THEN ParamText(params[1])
  ELSE ParamText(params[1]) \o sep \o ParamsText(Tail(params), sep)

\* the header value as it stands on the wire
HeaderText(pad, scheme, params, sep) ==
  pad \o scheme \o (IF params = <<>> THEN <<>> ELSE <<" ">> \o ParamsText(params, sep))

RECURSIVE SplitWhitespace(_)
\* s.split(/\s+/) for a trimmed s
SplitWhitespace(s) ==
  IF \A i \in 1..Len(s) : ~IsSpace(s[i]) THEN <<s>>
  ELSE LET i == CHOOSE j \in 1..Len(s) : IsSpace(s[j]) /\ \A k \in 1..(j - 1) : ~IsSpace(s[k])
       IN <<SubSeq(s, 1, i - 1)>> \o SplitWhitespace(TrimStart(SubSeq(s, i + 1, Len(s))))

LowerCase(ch) == IF ch = "B" THEN "b" ELSE ch
\* s.toLowerCase()
toLowerCase(s) == [i \in 1..Len(s) |-> LowerCase(s[i])]

\* \w
IsWord(ch) ==
  ch \in {"a", "b", "c", "d", "e", "f", "g", "h", "i", "j", "k", "l", "m", "n", "o", "p", "q",
          "r", "s", "t", "u", "v", "w", "x", "y", "z", "B", "_"}

\* where the run of \w characters that starts at i ends
WordEnd(s, i) ==
  CHOOSE j \in i..(Len(s) + 1) :
    /\ j = Len(s) + 1 \/ ~IsWord(s[j])
    /\ \A k \in i..(j - 1) : IsWord(s[k])

NoMatch == [found |-> FALSE, key |-> <<>>, value |-> <<>>, lastIndex |-> 0]

\* /(\w+)="([^"]*)"/ anchored at i: \w+ takes the whole run, since the next
\* character has to be =
MatchAt(s, i) ==
  LET j == WordEnd(s, i) IN
  IF /\ j > i
     /\ j + 1 <= Len(s)
     /\ s[j] = "="
     /\ s[j + 1] = QUOTE
     /\ \E k \in (j + 2)..Len(s) : s[k] = QUOTE
  THEN LET k == CHOOSE k \in (j + 2)..Len(s) :
                  s[k] = QUOTE /\ \A l \in (j + 2)..(k - 1) : s[l] # QUOTE
       IN [found |-> TRUE, key |-> SubSeq(s, i, j - 1), value |-> SubSeq(s, j + 2, k - 1),
           lastIndex |-> k + 1]
  ELSE NoMatch

\* paramRegex.exec(paramString) from lastIndex on: the leftmost match
exec(s, lastIndex) ==
  IF \E i \in lastIndex..Len(s) : MatchAt(s, i).found
  THEN MatchAt(s, CHOOSE i \in lastIndex..Len(s) :
                    MatchAt(s, i).found /\ \A h \in lastIndex..(i - 1) : ~MatchAt(s, h).found)
  ELSE NoMatch

\* switch (key.toLowerCase())
assign(challenge, key, value) ==
  IF key = ResourceMetadataKey THEN [challenge EXCEPT !.resourceMetadata = Some(value)]
  ELSE IF key = ScopeKey THEN [challenge EXCEPT !.scope = Some(value)]
  ELSE challenge

RECURSIVE parseParams(_, _, _)
\* while (match !== null) { ... match = paramRegex.exec(paramString) }
parseParams(paramString, lastIndex, challenge) ==
  LET match == exec(paramString, lastIndex) IN
  IF ~match.found THEN challenge
  ELSE IF match.key = <<>> \/ match.value = <<>>
  THEN parseParams(paramString, match.lastIndex, challenge)
  ELSE parseParams(paramString, match.lastIndex,
                   assign(challenge, toLowerCase(match.key), match.value))

\* parseWWWAuthenticateHeader(headerValue): None is null
parseWWWAuthenticateHeader(headerValue) ==
  LET parts == SplitWhitespace(Trim(headerValue))
      scheme == parts[1]
  IN IF scheme = <<>> \/ toLowerCase(scheme) # LowerBearerScheme THEN None
     ELSE Some(parseParams(Join(Tail(parts)), 1,
                           [scheme |-> scheme, resourceMetadata |-> None, scope |-> None]))

CallParseWWWAuthenticateHeader ==
  /\ \E pad \in {<<>>, <<" ">>}, scheme \in ChallengeSchemes, params \in ParamLists,
        sep \in ParamSeparators :
       fn' = App("parseWWWAuthenticateHeader",
                 [scheme |-> scheme, params |-> params,
                  headerValue |-> HeaderText(pad, scheme, params, sep)],
                 parseWWWAuthenticateHeader(HeaderText(pad, scheme, params, sep)))
  /\ UNCHANGED <<rvars, prov, config>>

\* ------------------------------------------------------- Craft connections
\* craft-config: addConnection, removeConnection and useConnection, each a
\* load of ~/.craft/config.json, a change and a save
ConnNames == {"work", "home", "lab"}
ConnTypes == {"doc", "daily-notes", NULL}

ErrInvalidUrl == "InvalidCraftUrl"            \* validateCraftUrl threw
ErrConnectionExists == "ConnectionExists"     \* Connection '<name>' already exists
ErrConnectionNotFound == "ConnectionNotFound" \* Connection '<name>' not found
ErrWriteFailed == "WriteFailed"               \* fs.mkdir / fs.writeFile failed

Command(op, name, res) == [op |-> op, name |-> name, res |-> res]

\* no config file yet, no command run
NoConfig == [file |-> None, last |-> Command("none", NULL, NoErr)]

\* JSON.stringify(config, null, 2): a property that is undefined is left out
stringify(cfg) ==
  LET cs == [i \in 1..Len(cfg.connections) |->
               LET c == cfg.connections[i] IN
               IF c.type = NULL THEN [name |-> c.name] ELSE [name |-> c.name, type |-> c.type]]
  IN IF cfg.defaultConnection = NULL
     THEN [connections |-> cs]
     ELSE [connections |-> cs, defaultConnection |-> cfg.defaultConnection]

\* JSON.parse(content): a property that is not there reads as undefined
parse(json) ==
  [ connections |-> [i \in 1..Len(json.connections) |->
                       LET c == json.connections[i] IN
                       [name |-> c.name, type |-> IF "type" \in DOMAIN c THEN c.type ELSE NULL]],
    defaultConnection |->
      IF "defaultConnection" \in DOMAIN json THEN json.defaultConnection ELSE NULL ]

\* loadCraftConfig(): { connections: [] } when the file does not exist
loadCraftConfig(file) ==
  IF file.def THEN parse(file.v) ELSE [connections |-> <<>>, defaultConnection |-> NULL]

\* config.connections.some((c) => c.name === name)
HasConnection(cfg, name) == \E i \in 1..Len(cfg.connections) : cfg.connections[i].name = name

\* config.connections.findIndex((c) => c.name === name), for a name that is there
findIndex(cfg, name) ==
  CHOOSE i \in 1..Len(cfg.connections) :
    cfg.connections[i].name = name /\ \A h \in 1..(i - 1) : cfg.connections[h].name # name

\* a removal that leaves the config without a default
noDefault(connections) == NULL

\* config.connections[0]?.name
firstName(connections) == IF connections = <<>> THEN NULL ELSE connections[1].name

\* saveCraftConfig(config), then the command returns; or the write fails, the
\* file stays as it was and the command throws
Save(op, name, cfg, saved) ==
  IF saved
  THEN config' = [file |-> Some(stringify(cfg)), last |-> Command(op, name, "ok")]
  ELSE config' = [config EXCEPT !.last = Command(op, name, ErrWriteFailed)]

Throw(op, name, err) == config' = [config EXCEPT !.last = Command(op, name, err)]

\* addConnection(name, url): the url passes validateCraftUrl or not, type is
\* what discoverConnectionType detected
addConnection(name, validUrl, type, saved) ==
  LET cfg == loadCraftConfig(config.file)
      pushed == Append(cfg.connections, [name |-> name, type |-> type])
  IN
  /\ UNCHANGED <<rvars, prov, fn>>
  /\ IF ~validUrl THEN Throw("addConnection", name, ErrInvalidUrl)
     ELSE IF HasConnection(cfg, name) THEN Throw("addConnection", name, ErrConnectionExists)
     ELSE Save("addConnection", name,
               [ connections |-> pushed,
                 defaultConnection |-> IF Len(pushed) = 1 THEN name ELSE cfg.defaultConnection ],
               saved)

\* removeConnection(name)
removeConnection(name, saved) ==
  LET cfg == loadCraftConfig(config.file) IN
  /\ UNCHANGED <<rvars, prov, fn>>
  /\ IF ~HasConnection(cfg, name) THEN Throw("removeConnection", name, ErrConnectionNotFound)
     ELSE LET spliced == RemoveAt(cfg.connections, findIndex(cfg, name)) IN
          Save("removeConnection", name,
               [ connections |-> spliced,
                 defaultConnection |-> IF cfg.defaultConnection = name
                                       THEN firstName(spliced) ELSE cfg.defaultConnection ],
               saved)

\* useConnection(name)
useConnection(name, saved) ==
  LET cfg == loadCraftConfig(config.file) IN
  /\ UNCHANGED <<rvars, prov, fn>>
  /\ IF ~HasConnection(cfg, name) THEN Throw("useConnection", name, ErrConnectionNotFound)
     ELSE Save("useConnection", name, [cfg EXCEPT !.defaultConnection = name], saved)

\* -------------------------------------------------------- command inference
\* cli/command-inference: inferCommandRouting(token, args, definitions)
Tokens ==
  { "", "work", "home", "list", "tools", "call", "auth", "collections_list", "srv", "srv.tool",
    "https://x/mcp", "https://x/mcp.tool" }
ArgTokens == {"", "tools", "collections_list"}
ArgLists == UNION {[1..n -> ArgTokens] : n \in 0..MaxArgs}

\* the names of the definitions passed in: none, or the server srv
DefinitionLists == { <<>>, <<"srv">> }

\* what chooseClosestIdentifier finds for a token that is no server name
Resolutions == {"none", "auto", "suggest"}

Route(command, args, defaultConnection) ==
  [kind |-> "command", command |-> command, args |-> args,
   defaultConnection |-> defaultConnection, exitCode |-> 0]
Abort(exitCode) ==
  [kind |-> "abort", command |-> NULL, args |-> <<>>, defaultConnection |-> NULL,
   exitCode |-> exitCode]

isExplicitCommand(token) == token \in {"list", "call", "auth", "tools"}
looksLikeHttpUrl(token) == token \in {"https://x/mcp", "https://x/mcp.tool"}
isHttpToolToken(token) == token # "" /\ token = "https://x/mcp.tool"
isUrlToken(token) == looksLikeHttpUrl(token)
\* CALL_TOKEN_PATTERN = /[.(]/
isCallLikeToken(token) == token # "" /\ ~looksLikeHttpUrl(token) /\ token \in {"srv.tool"}

\* the branch taken for a token that names a connection of the config
connectionRoute(token, args) ==
  IF args = <<>> \/ args[1] = "" THEN Route("list", <<>>, token)
  ELSE IF isExplicitCommand(args[1]) THEN Route(args[1], Tail(args), token)
  ELSE Route("call", args, token)

\* a token that is no connection name: craft <toolName> on the default connection
defaultRoute(token, args, loaded) ==
  IF loaded.def /\ loaded.v.defaultConnection # NULL /\ loaded.v.defaultConnection # ""
  THEN Route("call", <<token>> \o args, loaded.v.defaultConnection)
  ELSE Route(token, args, NULL)

\* inferCommandRouting; loaded is what loadCraftConfig gave (None: it threw),
\* resolution what chooseClosestIdentifier found
inferCommandRouting(token, args, serverNames, loaded, resolution) ==
  IF token = "" THEN Route(token, args, NULL)
  ELSE IF loaded.def /\ HasConnection(loaded.v, token) THEN connectionRoute(token, args)
  ELSE IF isExplicitCommand(token) THEN Route(token, args, NULL)
  ELSE IF isHttpToolToken(token) THEN Route("call", <<token>> \o args, NULL)
  ELSE IF isUrlToken(token) THEN Route("list", <<token>> \o args, NULL)
  ELSE IF isCallLikeToken(token) THEN Route("call", <<token>> \o args, NULL)
  ELSE IF serverNames = <<>> THEN defaultRoute(token, args, loaded)
  ELSE IF \E i \in DOMAIN serverNames : serverNames[i] = token
  THEN Route("list", <<token>> \o args, NULL)
  ELSE IF resolution = "none" THEN defaultRoute(token, args, loaded)
  ELSE IF resolution = "auto" THEN Route("list", <<serverNames[1]>> \o args, NULL)
  ELSE Abort(1)

CallInferCommandRouting ==
  /\ \E token \in Tokens, args \in ArgLists, serverNames \in DefinitionLists,
        loads \in BOOLEAN, resolution \in Resolutions :
       LET loaded == IF loads THEN Some(loadCraftConfig(config.file)) ELSE None IN
       fn' = App("inferCommandRouting",
                 [token |-> token, args |-> args, definitions |-> serverNames, loaded |-> loaded],
                 inferCommandRouting(token, args, serverNames, loaded, resolution))
  /\ UNCHANGED <<rvars, prov, config>>

\* ----------------------------------------------------------- specification
\* new McpRuntime(servers): one server named w; its credential directory may
\* hold a token pair from an earlier run
Init ==
  /\ \E d \in Defs : definitions = [n \in TableNames |-> IF n = W THEN d ELSE NoDef]
  /\ clients = <<>>
  /\ attempts = <<>>
  /\ calls = <<>>
  /\ ncalls = 0
  /\ returned = NoOutcome
  /\ tokenFile = [n \in PoolNames |-> IF n = W THEN 1 ELSE 0]
  /\ issued = 1
  /\ regs = 0
  /\ prov = NewProvider(CALLBACK_PATH)
  /\ fn = NoApp
  /\ config = NoConfig

\* the provider and the discovery client seen on their own take no step
Idle == UNCHANGED <<prov, fn, config>>

Next ==
  \/ \E s \in ServerArgs : callTool(s) /\ Idle
  \/ \E s \in ServerArgs, auto \in BOOLEAN : listTools(s, auto) /\ Idle
  \/ \E s \in ServerArgs : closeOne(s) /\ Idle
  \/ closeAll /\ Idle
  \/ \E g \in Registrations, o \in BOOLEAN : registerDefinition(g[1], g[2], o) /\ Idle
  \/ \E c \in Calls : Resume(c) /\ Idle
  \/ \E c \in Calls : CloseTeardown(c) /\ Idle
  \/ \E c \in Calls : CloseDelete(c) /\ Idle
  \/ \E a \in Attempts : LoopTop(a) /\ Idle
  \/ \E a \in Attempts : ConnectOutcome(a) /\ Idle
  \/ \E a \in Attempts : OnDemandSession(a) /\ Idle
  \/ \E a \in Attempts : Invalidate(a) /\ Idle
  \/ \E a \in Attempts : CloseOld(a) /\ Idle
  \/ \E a \in Attempts : ReconnectOutcome(a) /\ Idle
  \/ \E a \in Attempts, kind \in {"code", "error"} : Callback(a, kind) /\ Idle
  \/ \E a \in Attempts : FinishAuth(a) /\ Idle
  \/ \E a \in Attempts : HandlePrimary(a) /\ Idle
  \/ \E a \in Attempts : HandleSse(a) /\ Idle

Spec == Init /\ [][Next]_vars

\* the runtime's own steps: they run as soon as the event loop is free
RuntimeStep ==
  \/ \E c \in Calls : Resume(c) /\ Idle
  \/ \E c \in Calls : CloseTeardown(c) /\ Idle
  \/ \E c \in Calls : CloseDelete(c) /\ Idle
  \/ \E a \in Attempts : LoopTop(a) /\ Idle
  \/ \E a \in Attempts : OnDemandSession(a) /\ Idle
  \/ \E a \in Attempts : Invalidate(a) /\ Idle
  \/ \E a \in Attempts : CloseOld(a) /\ Idle
  \/ \E a \in Attempts : HandlePrimary(a) /\ Idle
  \/ \E a \in Attempts : HandleSse(a) /\ Idle

\* the answers of the servers: every request is answered
ServerStep ==
  \/ \E a \in Attempts : ConnectOutcome(a) /\ Idle
  \/ \E a \in Attempts : ReconnectOutcome(a) /\ Idle
  \/ \E a \in Attempts : FinishAuth(a) /\ Idle

\* The event loop runs every continuation that is ready and every request is
\* answered; nothing obliges the user to finish the browser flow or the
\* caller to make another call.
FairSpec == Spec /\ WF_vars(RuntimeStep) /\ WF_vars(ServerStep)

\* Only connect calls (callTool, listTools) and what they set off: no close,
\* no registerDefinition.
NextConnect ==
  \/ \E s \in ServerArgs : callTool(s) /\ Idle
  \/ \E s \in ServerArgs, auto \in BOOLEAN : listTools(s, auto) /\ Idle
  \/ \E c \in Calls : Resume(c) /\ Idle
  \/ \E a \in Attempts : LoopTop(a) /\ Idle
  \/ \E a \in Attempts : ConnectOutcome(a) /\ Idle
  \/ \E a \in Attempts : OnDemandSession(a) /\ Idle
  \/ \E a \in Attempts : Invalidate(a) /\ Idle
  \/ \E a \in Attempts : CloseOld(a) /\ Idle
  \/ \E a \in Attempts : ReconnectOutcome(a) /\ Idle
  \/ \E a \in Attempts, kind \in {"code", "error"} : Callback(a, kind) /\ Idle
  \/ \E a \in Attempts : FinishAuth(a) /\ Idle
  \/ \E a \in Attempts : HandlePrimary(a) /\ Idle
  \/ \E a \in Attempts : HandleSse(a) /\ Idle

SpecConnect == Init /\ [][NextConnect]_vars

\* connect called directly with maxOAuthAttempts 0, with and without
\* skipCache, beside callTool and registerDefinition, all for the server w.
NextDirect ==
  \/ \E skip \in BOOLEAN : connectWith(W, FALSE, skip) /\ Idle
  \/ \E c \in Calls : ResumeConnect(c) /\ Idle
  \/ callTool(W) /\ Idle
  \/ \E o \in BOOLEAN : registerDefinition(W, HttpDef(FALSE, FALSE, "oauth"), o) /\ Idle
  \/ \E c \in Calls : Resume(c) /\ Idle
  \/ \E a \in Attempts : LoopTop(a) /\ Idle
  \/ \E a \in Attempts : ConnectOutcome(a) /\ Idle
  \/ \E a \in Attempts : OnDemandSession(a) /\ Idle
  \/ \E a \in Attempts : Invalidate(a) /\ Idle
  \/ \E a \in Attempts : CloseOld(a) /\ Idle
  \/ \E a \in Attempts : ReconnectOutcome(a) /\ Idle
  \/ \E a \in Attempts, kind \in {"code", "error"} : Callback(a, kind) /\ Idle
  \/ \E a \in Attempts : FinishAuth(a) /\ Idle
  \/ \E a \in Attempts : HandlePrimary(a) /\ Idle
  \/ \E a \in Attempts : HandleSse(a) /\ Idle

SpecDirect == Init /\ [][NextDirect]_vars

\* A runtime with the servers w and x, taken up when callTool('w') has been
\* issued and its connect is pending in the pool; MaxCalls bounds the calls
\* made from here on.
InitClose ==
  /\ \E d \in Defs :
       /\ definitions = [n \in TableNames |-> IF n = W THEN d ELSE StdioDef]
       /\ attempts = <<NewAttempt(W, d, FALSE, TRUE)>>
  /\ clients = << <<W, 1>> >>
  /\ calls = <<NewCall("callTool", W, 1, "await")>>
  /\ ncalls = 0
  /\ returned = NoOutcome
  /\ tokenFile = [n \in PoolNames |-> IF n = W THEN 1 ELSE 0]
  /\ issued = 1
  /\ regs = 0
  /\ prov = NewProvider(CALLBACK_PATH)
  /\ fn = NoApp
  /\ config = NoConfig

\* callTool and close() and what they set off
NextClose ==
  \/ \E s \in ServerArgs : callTool(s) /\ Idle
  \/ closeAll /\ Idle
  \/ \E c \in Calls : Resume(c) /\ Idle
  \/ \E c \in Calls : CloseTeardown(c) /\ Idle
  \/ \E c \in Calls : CloseDelete(c) /\ Idle
  \/ \E a \in Attempts : LoopTop(a) /\ Idle
  \/ \E a \in Attempts : ConnectOutcome(a) /\ Idle
  \/ \E a \in Attempts : OnDemandSession(a) /\ Idle
  \/ \E a \in Attempts : Invalidate(a) /\ Idle
  \/ \E a \in Attempts : CloseOld(a) /\ Idle
  \/ \E a \in Attempts : ReconnectOutcome(a) /\ Idle
  \/ \E a \in Attempts, kind \in {"code", "error"} : Callback(a, kind) /\ Idle
  \/ \E a \in Attempts : FinishAuth(a) /\ Idle
  \/ \E a \in Attempts : HandlePrimary(a) /\ Idle
  \/ \E a \in Attempts : HandleSse(a) /\ Idle

SpecClose == InitClose /\ [][NextClose]_vars

\* callTool and close(name) and what they set off, from the same start
NextCloseOne ==
  \/ \E s \in ServerArgs : callTool(s) /\ Idle
  \/ \E s \in ServerArgs : closeOne(s) /\ Idle
  \/ \E c \in Calls : Resume(c) /\ Idle
  \/ \E c \in Calls : CloseTeardown(c) /\ Idle
  \/ \E c \in Calls : CloseDelete(c) /\ Idle
  \/ \E a \in Attempts : LoopTop(a) /\ Idle
  \/ \E a \in Attempts : ConnectOutcome(a) /\ Idle
  \/ \E a \in Attempts : OnDemandSession(a) /\ Idle
  \/ \E a \in Attempts : Invalidate(a) /\ Idle
  \/ \E a \in Attempts : CloseOld(a) /\ Idle
  \/ \E a \in Attempts : ReconnectOutcome(a) /\ Idle
  \/ \E a \in Attempts, kind \in {"code", "error"} : Callback(a, kind) /\ Idle
  \/ \E a \in Attempts : FinishAuth(a) /\ Idle
  \/ \E a \in Attempts : HandlePrimary(a) /\ Idle
  \/ \E a \in Attempts : HandleSse(a) /\ Idle

SpecCloseOne == InitClose /\ [][NextCloseOne]_vars

\* the runtime craftCallOnce creates: the one definition of the connection,
\* http on a Craft host (validateCraftUrl has passed) with auth oauth; tokens
\* of an earlier run may be cached
InitOnce ==
  /\ definitions = [n \in TableNames |-> IF n = W THEN HttpDef(TRUE, FALSE, "oauth") ELSE NoDef]
  /\ clients = <<>>
  /\ attempts = <<>>
  /\ calls = <<>>
  /\ ncalls = 0
  /\ returned = NoOutcome
  /\ \E t \in 0..1 : tokenFile = [n \in PoolNames |-> IF n = W THEN t ELSE 0] /\ issued = t
  /\ regs = 0
  /\ prov = NewProvider(CALLBACK_PATH)
  /\ fn = NoApp
  /\ config = NoConfig

NextOnce ==
  \/ craftCallOnce(W) /\ Idle
  \/ \E c \in Calls : OnceResume(c) /\ Idle
  \/ \E c \in Calls : OnceFinally(c) /\ Idle
  \/ \E c \in Calls : OnceTeardown(c) /\ Idle
  \/ \E c \in Calls : OnceDelete(c) /\ Idle
  \/ \E c \in Calls : OnceReturn(c) /\ Idle
  \/ \E a \in Attempts : LoopTop(a) /\ Idle
  \/ \E a \in Attempts : ConnectOutcome(a) /\ Idle
  \/ \E a \in Attempts : Invalidate(a) /\ Idle
  \/ \E a \in Attempts : CloseOld(a) /\ Idle
  \/ \E a \in Attempts : ReconnectOutcome(a) /\ Idle
  \/ \E a \in Attempts, kind \in {"code", "error"} : Callback(a, kind) /\ Idle
  \/ \E a \in Attempts : FinishAuth(a) /\ Idle
  \/ \E a \in Attempts : HandlePrimary(a) /\ Idle

SpecOnce == InitOnce /\ [][NextOnce]_vars

\* handleCall on the runtime of one command, with the connect it sets off
NextCall ==
  \/ handleCall(W) /\ Idle
  \/ \E c \in Calls : HandleCallSend(c) /\ Idle
  \/ \E c \in Calls : HandleCallOutcome(c) /\ Idle
  \/ \E c \in Calls : HandleCallTimeout(c) /\ Idle
  \/ \E c \in Calls : HandleCallTeardown(c) /\ Idle
  \/ \E c \in Calls : HandleCallDelete(c) /\ Idle
  \/ \E c \in Calls : HandleCallThrow(c) /\ Idle
  \/ \E a \in Attempts : LoopTop(a) /\ Idle
  \/ \E a \in Attempts : ConnectOutcome(a) /\ Idle
  \/ \E a \in Attempts : OnDemandSession(a) /\ Idle
  \/ \E a \in Attempts : Invalidate(a) /\ Idle
  \/ \E a \in Attempts : CloseOld(a) /\ Idle
  \/ \E a \in Attempts : ReconnectOutcome(a) /\ Idle
  \/ \E a \in Attempts, kind \in {"code", "error"} : Callback(a, kind) /\ Idle
  \/ \E a \in Attempts : FinishAuth(a) /\ Idle
  \/ \E a \in Attempts : HandlePrimary(a) /\ Idle
  \/ \E a \in Attempts : HandleSse(a) /\ Idle

\* the continuations of handleCall once its timer has fired
CallStep ==
  \/ \E c \in Calls : HandleCallTeardown(c) /\ Idle
  \/ \E c \in Calls : HandleCallDelete(c) /\ Idle
  \/ \E c \in Calls : HandleCallThrow(c) /\ Idle

\* Every continuation that is ready runs and every connect request is
\* answered; nothing obliges the tool to answer or the user to finish the
\* browser flow.
SpecCall == Init /\ [][NextCall]_vars /\ WF_vars(CallStep) /\ WF_vars(RuntimeStep) /\ WF_vars(ServerStep)

\* a runtime constructed with any of the definitions of ListNames, all stdio:
\* listServers beside registerDefinition and callTool
InitList ==
  /\ definitions \in [ListNames -> {NoDef, StdioDef}]
  /\ clients = <<>>
  /\ attempts = <<>>
  /\ calls = <<>>
  /\ ncalls = 0
  /\ returned = NoOutcome
  /\ tokenFile = [n \in PoolNames |-> 0]
  /\ issued = 0
  /\ regs = 0
  /\ prov = NewProvider(CALLBACK_PATH)
  /\ fn = NoApp
  /\ config = NoConfig

NextList ==
  \/ listServers
  \/ \E n \in ListNames, o \in BOOLEAN : registerDefinition(n, StdioDef, o) /\ Idle
  \/ callTool(W) /\ Idle
  \/ \E c \in Calls : Resume(c) /\ Idle
  \/ \E a \in Attempts : LoopTop(a) /\ Idle
  \/ \E a \in Attempts : ConnectOutcome(a) /\ Idle

SpecList == InitList /\ [][NextList]_vars

\* a provider as create() leaves it, for every redirect path configured or
\* registered; the runtime holds no definition and takes no step
InitProvider ==
  /\ definitions = [n \in TableNames |-> NoDef]
  /\ clients = <<>>
  /\ attempts = <<>>
  /\ calls = <<>>
  /\ ncalls = 0
  /\ returned = NoOutcome
  /\ tokenFile = [n \in PoolNames |-> 0]
  /\ issued = 0
  /\ regs = 0
  /\ \E o \in RedirectPathnames, e \in RedirectPathnames :
       prov = NewProvider(callbackPath(o, e))
  /\ fn = NoApp
  /\ config = NoConfig

NextProvider ==
  \/ \E q \in Requests : ProvRequest(q)
  \/ redirectToAuthorization
  \/ waitForAuthorizationCode
  \/ provider_close
  \/ \E art \in Artifacts : saveArtifact(art)
  \/ \E art \in Artifacts : readArtifact(art)
  \/ \E scope \in Scopes : invalidateScope(scope)

SpecProvider == InitProvider /\ [][NextProvider]_vars

InitDiscovery ==
  /\ definitions = [n \in TableNames |-> NoDef]
  /\ clients = <<>>
  /\ attempts = <<>>
  /\ calls = <<>>
  /\ ncalls = 0
  /\ returned = NoOutcome
  /\ tokenFile = [n \in PoolNames |-> 0]
  /\ issued = 0
  /\ regs = 0
  /\ prov = NewProvider(CALLBACK_PATH)
  /\ fn = NoApp
  /\ config = NoConfig

NextDiscovery ==
  \/ CallSelectScopes
  \/ CallDiscoverProtectedResourceMetadata
  \/ CallDiscoverAuthorizationServerMetadata
  \/ CallCreate

SpecDiscovery == InitDiscovery /\ [][NextDiscovery]_vars

\* parseWWWAuthenticateHeader applied to a header; the function keeps no state,
\* so one application per behaviour covers it
NextChallenge == fn = NoApp /\ CallParseWWWAuthenticateHeader

SpecChallenge == InitDiscovery /\ [][NextChallenge]_vars

\* the connection commands run one after another on a config that starts
\* out without a file
NextConfig ==
  \/ \E name \in ConnNames, validUrl \in BOOLEAN, type \in ConnTypes, saved \in BOOLEAN :
       addConnection(name, validUrl, type, saved)
  \/ \E name \in ConnNames, saved \in BOOLEAN : removeConnection(name, saved)
  \/ \E name \in ConnNames, saved \in BOOLEAN : useConnection(name, saved)

SpecConfig == InitDiscovery /\ [][NextConfig]_vars

\* one command line routed over the config that connection commands have
\* left behind
NextRouting ==
  \/ \E name \in {"work", "home"} : fn = NoApp /\ addConnection(name, TRUE, NULL, TRUE)
  \/ \E name \in {"work", "home"} : fn = NoApp /\ removeConnection(name, TRUE)
  \/ \E name \in {"work", "home"} : fn = NoApp /\ useConnection(name, TRUE)
  \/ fn = NoApp /\ CallInferCommandRouting

SpecRouting == InitDiscovery /\ [][NextRouting]_vars

\* callTool for the server w and the connect cycle it sets off, with the
\* passes of createClient and the token pairs not limited to those the model
\* counts
NextCycle ==
  \/ callTool(W) /\ Idle
  \/ \E c \in Calls : Resume(c) /\ Idle
  \/ \E a \in Attempts : LoopTop(a) /\ Idle
  \/ \E a \in Attempts : ConnectOutcome(a) /\ Idle
  \/ \E a \in Attempts : OnDemandSession(a) /\ Idle
  \/ \E a \in Attempts : Invalidate(a) /\ Idle
  \/ \E a \in Attempts : CloseOld(a) /\ Idle
  \/ \E a \in Attempts : ReconnectOutcome(a) /\ Idle
  \/ \E a \in Attempts, kind \in {"code", "error"} : Callback(a, kind) /\ Idle
  \/ \E a \in Attempts : FinishAuth(a) /\ Idle
  \/ \E a \in Attempts : FinishAuthAgain(a) /\ Idle
  \/ \E a \in Attempts : HandlePrimary(a) /\ Idle
  \/ \E a \in Attempts : ContinueRefreshed(a) /\ Idle
  \/ \E a \in Attempts : HandleSse(a) /\ Idle

\* the continuations of createClient and of the calls
CycleStep ==
  \/ RuntimeStep
  \/ \E a \in Attempts : ContinueRefreshed(a) /\ Idle

\* the answers of the servers
AnswerStep ==
  \/ ServerStep
  \/ \E a \in Attempts : FinishAuthAgain(a) /\ Idle

\* Every continuation that is ready runs and every request is answered.
SpecCycle == Init /\ [][NextCycle]_vars /\ WF_vars(CycleStep) /\ WF_vars(AnswerStep)

\* -------------------------------------------------------------- properties
InFlight(n) == {a \in Attempts : attempts[a].name = n /\ ~Settled(attempts[a])}
Live(n) == {a \in Attempts : attempts[a].name = n /\ attempts[a].pc = "ok"}
ConnectOps == {"callTool", "listTools"}
CloseOps == {"close", "closeAll"}
Absent(n) == n \notin TableNames \/ definitions[n] = NoDef

\* C1: under concurrent connect calls for one name (SpecConnect: no close, no
\* registerDefinition) there is at most one connection attempt in flight for
\* the name, it is the pooled one, every call suspended on the name waits for
\* it, and a call that has returned delivered the outcome of the attempt it
\* waited for.
C1_SharedAttempt ==
  /\ \A n \in PoolNames :
       /\ Cardinality(InFlight(n)) <= 1
       /\ \A a \in InFlight(n) : PoolGet(clients, n) = a
       /\ Cardinality({i \in 1..Len(clients) : clients[i][1] = n}) <= 1
  /\ \A c \in Calls :
       ~Settled(attempts[calls[c].att]) => PoolGet(clients, calls[c].name) = calls[c].att
  /\ (returned.op \in ConnectOps /\ returned.att # 0) =>
       LET r == attempts[returned.att] IN
       /\ Settled(r)
       /\ Rejected(r) => returned.res = r.err
       /\ ~Rejected(r) => returned.res \in {"ok", ErrTool}

\* two calls wait for the same attempt, which is still in flight
C1_Witness ==
  \E c1, c2 \in Calls :
    /\ c1 # c2
    /\ calls[c1].op \in ConnectOps /\ calls[c2].op \in ConnectOps
    /\ calls[c1].att = calls[c2].att
    /\ ~Settled(attempts[calls[c1].att])

\* C2: at most one live session (connected, not torn down) per connection
\* name in every reachable state.
C2_OneLivePerName == \A n \in PoolNames : Cardinality(Live(n)) <= 1

\* C3: close(name) and close() never throw.
C3_CloseNeverThrows == returned.op \in CloseOps => returned.res = "ok"

Waiting(a) == a \in Attempts /\ attempts[a].pc = "waitCode"

\* C5: the wait for the authorization code always ends: an attempt that
\* waits for the code leaves the wait (by the code, a callback error or the
\* timeout) whether or not the user ever finishes the browser flow.
C5_WaitEnds == \A a \in 1..MaxAttempts : Waiting(a) ~> ~Waiting(a)

\* C6: no call ever fails with the internal OAuthTokensRefreshedError.
C6_RefreshedNeverEscapes ==
  /\ returned.res # ErrRefreshed
  /\ \A a \in Attempts : Rejected(attempts[a]) => attempts[a].err # ErrRefreshed

C8_ClosedOnThrow ==
  \A a \in Attempts :
    /\ Rejected(attempts[a]) => ~attempts[a].leakT /\ ~attempts[a].leakS
    /\ (attempts[a].pc = "top" /\ attempts[a].rounds > 1) => ~attempts[a].leakT

\* C9: when callTool has returned from a connection attempt it started
\* (auto-authorization permitted, definition not re-registered) whose first
\* connect was answered Unauthorized, the definition table holds the
\* definition with authMode oauth.
C9_PromotedAfterCall ==
  ( /\ returned.op = "callTool"
    /\ returned.att # 0
    /\ regs = 0
    /\ ~attempts[returned.att].max0
    /\ attempts[returned.att].first401 )
  => DefGet(definitions, returned.name).auth = "oauth"

\* C10: the connect made after invalidateCredentials('all') sends no token
\* that was cached before the invalidation: tokens() yields nothing, or a
\* token saved by saveTokens after the invalidation; and only saveTokens
\* (in FinishAuth) makes tokens() yield something again.
C10_NoStaleToken ==
  \A a \in Attempts :
    attempts[a].pc \in {"closeOld", "reconnect"} =>
      \/ tokenFile[attempts[a].name] = 0
      \/ tokenFile[attempts[a].name] > attempts[a].invalAt

\* a token was cached, the credentials were invalidated, and the retry
\* connect is in flight with nothing to send
C10_Witness ==
  \E a \in Attempts :
    /\ attempts[a].pc = "reconnect"
    /\ attempts[a].invalAt >= 1
    /\ tokenFile[attempts[a].name] = 0

\* what the request handler does to a pending future, as the redirect's
\* query says
Expected(q) ==
  IF Truthy(q.code) THEN <<"resolved", q.code>>
  ELSE IF Truthy(q.error) THEN <<"rejected", "OAuth error: ", q.error>>
  ELSE <<"rejected", MissingCode>>

\* C11: while an authorization future is pending, a request to the callback
\* path (the path of the redirect URL the provider registered) gets exactly
\* one HTTP response and settles the future once: resolved with the code when
\* the request carries one, rejected with an error containing the error
\* value when it carries an error and no code, rejected with the missing-code
\* error when it carries neither; the future is no longer the pending one.
C11_CallbackSettles ==
  [][\A q \in Requests :
       ( /\ ProvRequest(q)
         /\ q.path = prov.path
         /\ prov.deferred # 0
         /\ prov.promises[prov.deferred] = Pending )
       => /\ prov'.last.responses = 1
          /\ prov'.last.res \in {"200", "400"}
          /\ prov'.deferred = 0
          /\ prov'.promises[prov.deferred] = Expected(q)]_vars

\* C12: once the OAuth session is closed the callback listener is closed and
\* no caller of waitForAuthorizationCode is left awaiting a pending future.
C12_CloseRejectsWaiter ==
  prov.server = "closed" =>
    /\ prov.deferred = 0
    /\ prov.waiter = 0 \/ prov.promises[prov.waiter] # Pending

\* C13: the first connect of a pass after the first (a pass is repeated only
\* after a successful code exchange or after a promotion to OAuth) runs over
\* a transport constructed in that pass, with the OAuth provider of an open
\* session attached; the transports of the pass before are not in use.
C13_RetryCarriesProvider ==
  \A a \in Attempts :
    (attempts[a].pc = "connect" /\ attempts[a].via = "stream" /\ attempts[a].rounds > 1)
    => /\ attempts[a].t1 = "open"
       /\ attempts[a].t2 = "none"
       /\ attempts[a].sess = "open"

\* the OAuth sessions one createClient invocation has created so far: the
\* one it keeps across passes, the one connectWithAuth holds, and whether
\* one was left behind
SessionsCreated(r) ==
  (IF r.sess # "none" THEN 1 ELSE 0) + (IF r.od # "none" THEN 1 ELSE 0)
  + (IF r.leakS THEN 1 ELSE 0)

\* C14: one connect cycle (one createClient invocation, with all its passes
\* and its SSE fallback) creates at most one OAuth session.
C14_OneSessionPerCycle ==
  \A a \in Attempts : ~Settled(attempts[a]) => SessionsCreated(attempts[a]) <= 1

\* C20: for a definition on a Craft host no SSE transport is ever created,
\* and when the streaming connect has thrown, createClient either starts a
\* new pass over a new streaming transport (tokens refreshed, promotion to
\* OAuth) or rejects with that same error.
C20_CraftStreamingOnly ==
  [][\A a \in Attempts :
       (attempts[a].def.kind = "http" /\ attempts[a].def.craft)
       => /\ attempts'[a].sse = "none"
          /\ attempts'[a].via # "sse"
          /\ HandlePrimary(a) =>
               \/ attempts'[a].pc = "top" /\ attempts'[a].via = "stream"
               \/ /\ attempts'[a].pc = "failed"
                  /\ attempts'[a].err = attempts[a].err
                  /\ returned' = returned]_vars

\* the streaming connect of a Craft definition failed for a reason other
\* than authorization and the attempt was rejected with that error
C20_Witness ==
  \E a \in Attempts :
    /\ attempts[a].def.kind = "http" /\ attempts[a].def.craft
    /\ attempts[a].pc = "failed"
    /\ attempts[a].err = ErrConnectFailed

\* the artifacts a scope names: the token pair, the registered client, the
\* PKCE verifier; 'all' names these three
ScopeArtifacts(scope) ==
  IF scope = "all" THEN {"tokens", "client", "verifier"} ELSE {scope}

\* C18 as stated: invalidateCredentials(scope) removes the artifacts of its
\* scope, 'all' taking every cached artifact (the CSRF state included),
\* leaves the others unchanged and succeeds whether or not a file exists.
C18_RemovesScopeAsGiven ==
  [][\A scope \in Scopes :
       invalidateScope(scope) =>
         /\ prov'.last.res = "ok"
         /\ \A art \in Artifacts :
              prov'.files[art] =
                IF scope = "all" \/ art \in ScopeArtifacts(scope)
                THEN "absent" ELSE prov.files[art]]_vars

\* C18: invalidateCredentials(scope) removes exactly the artifacts of its
\* scope ('tokens', 'client', 'verifier' one each, 'all' these three),
\* leaves every other artifact (the CSRF state always) unchanged, succeeds
\* whether or not a file exists, and run again right after changes nothing.
C18_RemovesScope ==
  [][\A scope \in Scopes :
       invalidateScope(scope) =>
         /\ prov'.last.res = "ok"
         /\ \A art \in Artifacts :
              prov'.files[art] =
                IF art \in ScopeArtifacts(scope) THEN "absent" ELSE prov.files[art]
         /\ prov.last = Did("invalidateCredentials", scope, "ok", 0)
              => prov'.files = prov.files]_vars

\* invalidateCredentials('all') has run with every file there: the three
\* artifacts are gone, the CSRF state is still there
C18_Witness ==
  /\ prov.last = Did("invalidateCredentials", "all", "ok", 0)
  /\ prov.files = [a \in Artifacts |-> IF a = "state" THEN "present" ELSE "absent"]

\* C19: reading an artifact (tokens, clientInformation, codeVerifier, state)
\* never fails, whether or not its file exists.
C19_ReadNeverFails ==
  prov.last.op = "read" => prov.last.res # "ENOENT"

RECURSIVE Flatten(_)
Flatten(tokens) == IF tokens = <<>> THEN <<>> ELSE Head(tokens) \o Flatten(Tail(tokens))

NotSpace(ch) == ch # " "

\* the words of a scope string: the maximal runs of characters other than
\* the space
IsWordsOf(tokens, str) ==
  /\ \A i \in 1..Len(tokens) : tokens[i] # <<>> /\ \A j \in 1..Len(tokens[i]) : tokens[i][j] # " "
  /\ Flatten(tokens) = SelectSeq(str, NotSpace)
  /\ Len(tokens) = Cardinality({i \in 1..Len(str) : str[i] # " " /\ (i = 1 \/ str[i - 1] = " ")})

Advertised(list) == list.def /\ list.v # <<>>

ExampleBoth ==
  [challengedScope |-> None, scopesSupported |-> Some(<< <<"a">>, <<"b">> >>),
   protectedResourceScopes |-> Some(<< <<"c">> >>)]
ExampleResource ==
  [challengedScope |-> None, scopesSupported |-> None,
   protectedResourceScopes |-> Some(<< <<"c">> >>)]
ExampleNothing ==
  [challengedScope |-> None, scopesSupported |-> None, protectedResourceScopes |-> None]

\* C15: selectScopes returns the words of the challenged scope string when
\* one was captured; else the authorization server's scopes_supported when
\* it advertises any; else the protected resource's scopes when it
\* advertises any; else nothing.  {scopesSupported: [a,b],
\* protectedResourceScopes: [c]} gives [a,b], {protectedResourceScopes: [c]}
\* gives [c], {} gives nothing.
C15_ScopePriority ==
  fn.op = "selectScopes" =>
    /\ IF fn.in.challengedScope.def /\ fn.in.challengedScope.v # <<>>
       THEN fn.out.def /\ IsWordsOf(fn.out.v, fn.in.challengedScope.v)
       ELSE IF Advertised(fn.in.scopesSupported) THEN fn.out = fn.in.scopesSupported
       ELSE IF Advertised(fn.in.protectedResourceScopes)
       THEN fn.out = fn.in.protectedResourceScopes
       ELSE fn.out = None
    /\ fn.in = ExampleBoth => fn.out = Some(<< <<"a">>, <<"b">> >>)
    /\ fn.in = ExampleResource => fn.out = Some(<< <<"c">> >>)
    /\ fn.in = ExampleNothing => fn.out = None

\* selectScopes was given both lists and chose the authorization server's
C15_Witness ==
  /\ fn.op = "selectScopes"
  /\ fn.in = ExampleBoth
  /\ fn.out = Some(<< <<"a">>, <<"b">> >>)

\* C16: when scope discovery yields nothing (no protected resource metadata,
\* no authorization server metadata, or no scopes in the metadata) the
\* provider is created with client metadata that carries no scope.
C16_NoScopeInvented ==
  ( /\ fn.op = "create"
    /\ \/ fn.in.resource = Nil
       \/ fn.in.authServer \in {Nil, Threw}
       \/ ~Advertised(fn.in.scopes_supported) /\ ~Advertised(fn.in.resource_scopes) )
  => ~fn.out.def

\* the candidates a discovery probed
Candidates(app) ==
  IF app.op = "discoverProtectedResourceMetadata"
  THEN buildProtectedResourceWellKnownPaths(app.in[1])
  ELSE buildAuthorizationServerWellKnownPaths(app.in[1])

\* C17: a discovery never raises, whatever the input; it returns the first
\* candidate, in the order of the list, that answered 2xx with parseable
\* JSON, and nothing when no candidate did.
C17_DiscoveryNeverRaises ==
  fn.op \in {"discoverProtectedResourceMetadata", "discoverAuthorizationServerMetadata"} =>
    LET n == Len(Candidates(fn))
        hits == {i \in 1..n : fn.in[2][i] = "json"}
    IN /\ fn.out # Threw
       /\ hits = {} => fn.out = Nil
       /\ hits # {} =>
            \E i \in hits :
              /\ \A j \in hits : i <= j
              /\ fn.out = <<"metadata", i, Candidates(fn)[i]>>

\* the attempts started by a connect with skipCache
Throwaway == {a \in Attempts : ~attempts[a].cached}

\* the connected sessions with an OAuth session that the pool holds
Cached ==
  {b \in Attempts : /\ attempts[b].pc = "ok" /\ attempts[b].ctxS # "none"
                    /\ PoolGet(clients, attempts[b].name) = b}

\* C21: a connect with skipCache, in every step from the call to its return
\* or throw, leaves the pool as it is and changes no attempt that was
\* started through the pool; and no step of a non-authorizing connect
\* (maxOAuthAttempts 0), with or without skipCache, takes the connected,
\* authorized session of another attempt out of the pool or touches the
\* cached tokens.
C21_BypassLeavesPool ==
  [][/\ connectWith(W, FALSE, TRUE) =>
            /\ clients' = clients
            /\ tokenFile' = tokenFile
            /\ \A b \in Attempts : attempts'[b] = attempts[b]
     /\ \A a \in Throwaway :
          attempts'[a] # attempts[a] =>
            /\ clients' = clients
            /\ \A b \in Attempts \ {a} : attempts'[b] = attempts[b]
     /\ \A c \in Calls :
          (ResumeConnect(c) /\ calls[c].att \in Throwaway) =>
            /\ clients' = clients
            /\ tokenFile' = tokenFile
            /\ attempts' = attempts
     /\ \A a \in Attempts :
          (attempts[a].max0 /\ attempts'[a] # attempts[a]) =>
            /\ tokenFile' = tokenFile
            /\ \A b \in Cached \ {a} : PoolGet(clients', attempts[b].name) = b]_vars

\* C22: when close() ends, by returning or by throwing, the pool is empty
\* and no session is left connected, whatever happened to the entries it
\* went through.
C22_CloseAllReleasesAll ==
  [][\A c \in Calls :
       ( /\ calls[c].op = "closeAll"
         /\ CloseTeardown(c) \/ CloseDelete(c)
         /\ Len(calls') < Len(calls) )
       => /\ clients' = <<>>
          /\ \A a \in Attempts : attempts'[a].pc # "ok"]_vars

\* C23: registerDefinition throws AlreadyExists exactly when the name is
\* defined and overwrite is not set, and then the definition table and the
\* pool are as before; in every other case it returns and the table maps the
\* name to the definition it was given.
C23_RegisterDefinition ==
  [][\A g \in Registrations, o \in BOOLEAN :
       registerDefinition(g[1], g[2], o) =>
         IF ~o /\ definitions[g[1]] # NoDef
         THEN /\ returned'.res = ErrAlreadyExists
              /\ definitions' = definitions
              /\ clients' = clients
         ELSE /\ returned'.res = "ok"
              /\ definitions'[g[1]] = g[2]
              /\ \A n \in TableNames \ {g[1]} : definitions'[n] = definitions[n]]_vars

\* registerDefinition has thrown AlreadyExists for a defined name while a
\* session of that name was pooled
C23_Witness ==
  /\ returned.op = "registerDefinition"
  /\ returned.res = ErrAlreadyExists
  /\ definitions[returned.name] # NoDef
  /\ PoolGet(clients, returned.name) # 0

\* C24: listServers returns the names the definition table holds, each
\* exactly once, in ascending alphabetical order, and leaves the definition
\* table and the pool as they were.
C24_ListServersSorted ==
  [][listServers =>
       LET out == fn'.out IN
       /\ {out[i] : i \in DOMAIN out} = Keys(definitions)
       /\ Len(out) = Cardinality(Keys(definitions))
       /\ \A i, j \in DOMAIN out : i < j => localeCompare(out[i], out[j]) < 0
       /\ definitions' = definitions
       /\ clients' = clients]_vars

\* listServers was given three or more keys out of alphabetical order while
\* a session was pooled
C24_Witness ==
  /\ fn.op = "listServers"
  /\ Len(fn.in) >= 3
  /\ fn.in # fn.out
  /\ clients # <<>>

\* the quoted value of the parameter of that name, when the header has one
Quoted(params, key) ==
  IF \E i \in DOMAIN params : params[i].key = key
  THEN Some(params[CHOOSE i \in DOMAIN params : params[i].key = key].value)
  ELSE None

\* C25: parseWWWAuthenticateHeader returns null for a header whose scheme is
\* not Bearer, and for a Bearer header the scheme with resourceMetadata and
\* scope equal to the quoted values of the resource_metadata and scope
\* parameters the header has, and unset for a parameter it has not.
C25_ParsesQuotedValues ==
  fn.op = "parseWWWAuthenticateHeader" =>
    IF toLowerCase(fn.in.scheme) # LowerBearerScheme
    THEN fn.out = None
    ELSE /\ fn.out.def
         /\ fn.out.v.scheme = fn.in.scheme
         /\ fn.out.v.resourceMetadata = Quoted(fn.in.params, ResourceMetadataKey)
         /\ fn.out.v.scope = Quoted(fn.in.params, ScopeKey)

\* C26: craftCallOnce calls runtime.close once, after the tool call has
\* finished; when it returns or throws, the pool is empty, no session of the
\* runtime is left connected, and what it delivers is what the tool call
\* delivered, result or error.
C26_OnceClosesThenDelivers ==
  [][\A c \in Calls :
       calls[c].op = "craftCallOnce" =>
         /\ OnceFinally(c) => (calls[c].closes = 0 /\ Settled(attempts[calls[c].att]))
         /\ OnceReturn(c) =>
              /\ calls[c].closes = 1
              /\ returned'.res = calls[c].res
              /\ clients' = <<>>
              /\ \A a \in Attempts : attempts'[a].pc # "ok"]_vars

\* the tool call threw over a connected session; craftCallOnce closed the
\* session and threw the tool's error
C26_Witness ==
  /\ returned.op = "craftCallOnce"
  /\ returned.res = ErrTool
  /\ clients = <<>>
  /\ \E a \in Attempts : attempts[a].pc = "closed"

\* the names of the connections of a config, in the order of the list
ConnectionNames(cfg) == [i \in 1..Len(cfg.connections) |-> cfg.connections[i].name]

\* C27: whatever addConnection, removeConnection and useConnection have been
\* run on a config that started empty, defaultConnection is set exactly when
\* the list holds a connection, and then it names one of the list; the first
\* add sets it, a later add leaves it, removing the default moves it to the
\* first connection that remains and removing the last connection clears it.
C27_DefaultConnection ==
  [][LET before == loadCraftConfig(config.file)
         after == loadCraftConfig(config'.file)
         names == ConnectionNames(after)
     IN
     /\ (after.defaultConnection # NULL) <=> (names # <<>>)
     /\ after.defaultConnection # NULL => \E i \in DOMAIN names : names[i] = after.defaultConnection
     /\ \A name \in ConnNames :
          /\ ( /\ \E type \in ConnTypes : addConnection(name, TRUE, type, TRUE)
               /\ ~HasConnection(before, name) )
             => /\ names = Append(ConnectionNames(before), name)
                /\ after.defaultConnection =
                     IF before.connections = <<>> THEN name ELSE before.defaultConnection
          /\ (removeConnection(name, TRUE) /\ HasConnection(before, name))
             => /\ ~HasConnection(after, name)
                /\ after.defaultConnection =
                     IF before.defaultConnection # name THEN before.defaultConnection
                     ELSE IF names = <<>> THEN NULL ELSE names[1]]_vars

\* the default of three connections was removed and the first of the two
\* that remain is the default now
C27_Witness ==
  /\ config.last = Command("removeConnection", "work", "ok")
  /\ ConnectionNames(loadCraftConfig(config.file)) = <<"home", "lab">>
  /\ loadCraftConfig(config.file).defaultConnection = "home"

\* the call timeout of handleCall has elapsed with the tool call unfinished
TimedOut ==
  \E c \in Calls : calls[c].op = "handleCall" /\ calls[c].pc \in {"closing", "delete", "throw"}

\* C28: once the call timeout has elapsed with the tool call unfinished,
\* handleCall ends with the 'timed out after' error and the pool holds no
\* session of that server, whether or not the tool call ever finishes.
C28_TimeoutClosesAndFails ==
  TimedOut ~> ( /\ returned.op = "handleCall"
                /\ returned.res = ErrCallTimedOut
                /\ PoolGet(clients, returned.name) = 0 )

\* C29: for a first token that names a connection of the config, with no
\* token after it, inferCommandRouting gives the command 'tools' with no
\* arguments and defaultConnection set to that name.
C29_ConnectionAloneRoutesToTools ==
  ( /\ fn.op = "inferCommandRouting"
    /\ fn.in.loaded.def
    /\ HasConnection(fn.in.loaded.v, fn.in.token)
    /\ fn.in.args = <<>> )
  => fn.out = Route("tools", <<>>, fn.in.token)

\* the state of the transport the first connect of a pass went over
FirstTransport(r) == IF r.via = "sse" THEN r.sse ELSE r.t1

\* C30: in a connect that may authorize, each step of connectWithAuth is
\* entered from the step before it only: the invalidation after the first
\* connect has failed (with the session made on demand in between), the close
\* of the first transport after the invalidation, with the tokens gone, the
\* connect over the new transport after that close, the wait for the code
\* after that second connect has failed, and the exchange after a callback
\* has delivered a code to the wait.
C30_AuthStepsInOrder ==
  [][\A a \in Attempts :
       LET r == attempts[a]
           q == attempts'[a]
       IN (~r.max0 /\ q.pc # r.pc) =>
            /\ q.pc = "invalidate" => r.pc \in {"connect", "odSession"}
            /\ q.pc = "closeOld" => (r.pc = "invalidate" /\ tokenFile'[r.name] = 0)
            /\ q.pc = "reconnect" =>
                 /\ r.pc = "closeOld"
                 /\ FirstTransport(q) = "closed"
                 /\ q.t2 = "open"
                 /\ InUse(q) # "none"
            /\ q.pc = "waitCode" => (r.pc = "reconnect" /\ q.t2 = "open")
            /\ q.pc = "finishAuth" => (r.pc = "waitCode" /\ Callback(a, "code"))]_vars

\* an attempt that went through the whole flow and has its code: first
\* transport closed, second open, tokens invalidated, exchange about to start
C30_Witness ==
  \E a \in Attempts :
    /\ ~attempts[a].max0
    /\ attempts[a].pc = "finishAuth"
    /\ attempts[a].first401
    /\ FirstTransport(attempts[a]) = "closed"
    /\ attempts[a].t2 = "open"
    /\ tokenFile[attempts[a].name] = 0

\* the streaming connect has thrown an error createClient has no handling of
\* its own for: not the refreshed tokens, not a 401 answered by a promotion,
\* not the timeout, and the host is not a Craft host
FallsBack(r) ==
  /\ r.pc = "thrown" /\ r.via = "stream"
  /\ r.err \notin {ErrRefreshed, ErrTimeout}
  /\ ~(isUnauthorizedError(r.err) /\ maybeEnableOAuth(r.def) # NoDef /\ ~r.max0)
  /\ ~isCraftUrl(r.def)

\* C31: for an HTTP definition not on a Craft host, a failure of the
\* streaming connect that has no handling of its own is followed by one SSE
\* attempt, the only one of the pass; a session returned from the SSE attempt
\* holds the SSE transport; when the SSE attempt fails, the SSE transport is
\* closed, no OAuth session of the attempt is left open, and the SSE error is
\* thrown (or, step 6 repeated against SSE, the definition is promoted and a
\* new pass starts).
C31_SseFallbackOnce ==
  [][\A a \in Attempts :
       LET r == attempts[a]
           q == attempts'[a]
       IN
       /\ (HandlePrimary(a) /\ FallsBack(r)) =>
            (q.pc = "connect" /\ q.via = "sse" /\ q.sse = "open")
       /\ (q.sse = "open" /\ r.sse # "open") => (r.sse = "none" /\ HandlePrimary(a))
       /\ (r.via = "sse" /\ q.pc = "ok") => q.ctxT = "sse"
       /\ HandleSse(a) =>
            /\ q.leakT => (r.leakT \/ Open(r.t1) \/ Open(r.t2))
            /\ q.leakS => r.leakS
            /\ ~Open(q.sess) /\ ~Open(q.od)
            /\ \/ q.pc = "failed" /\ q.err = r.err
               \/ /\ q.pc = "top"
                  /\ isUnauthorizedError(r.err)
                  /\ q.def = maybeEnableOAuth(r.def)]_vars

\* C32: a connect for a stdio definition makes one attempt over one
\* subprocess transport: in every step of the attempt there is no OAuth
\* session, no second transport and no SSE transport, the pass is the first
\* one, the definition table is left as it is, and the session it returns is
\* connected over the subprocess transport with no OAuth session attached.
C32_StdioSingleAttempt ==
  [][\A a \in Attempts :
       LET r == attempts[a]
           q == attempts'[a]
       IN (r.def.kind = "stdio" /\ q # r) =>
            /\ q.def = r.def
            /\ q.via = "stdio"
            /\ q.rounds <= 1
            /\ q.sess = "none" /\ q.od = "none" /\ ~q.leakS
            /\ q.t2 = "none" /\ q.sse = "none"
            /\ q.pc \in {"connect", "ok", "closed", "failed"}
            /\ r.pc = "top" => (q.pc = "connect" /\ q.t1 = "open")
            /\ r.pc = "connect" => q.pc \in {"ok", "failed"}
            /\ q.pc = "ok" => (q.conn = "t1" /\ q.ctxT = "t1" /\ q.ctxS = "none")
            /\ definitions' = definitions]_vars

\* a stdio attempt has connected and its session is handed to a caller
C32_Witness ==
  \E a \in Attempts :
    /\ attempts[a].def.kind = "stdio"
    /\ attempts[a].pc = "ok"
    /\ attempts[a].ctxT = "t1"
    /\ returned.op \in ConnectOps /\ returned.att = a /\ returned.res = "ok"

\* C33: an attempt started with maxOAuthAttempts 0 never reaches a step of
\* the OAuth flow (on-demand session, invalidation, second transport, wait
\* for the code, exchange), never changes the cached tokens and never writes
\* the definition table; and listTools without auto-authorization for a name
\* the pool holds an entry for starts nothing and waits for that entry, the
\* pool and every attempt being left as they are.
C33_NoFlowWithoutAutoAuthorize ==
  [][/\ \A a \in Attempts :
          LET r == attempts[a]
              q == attempts'[a]
          IN (r.max0 /\ q # r) =>
               /\ q.pc \notin {"odSession", "invalidate", "closeOld", "reconnect",
                               "waitCode", "finishAuth"}
               /\ q.od = "none" /\ q.t2 = "none" /\ q.invalAt = -1
               /\ q.def = r.def
               /\ tokenFile' = tokenFile
               /\ definitions' = definitions
     /\ \A s \in ServerArgs :
          (listTools(s, FALSE) /\ PoolGet(clients, Trim(s)) # 0) =>
            /\ attempts' = attempts
            /\ clients' = clients
            /\ tokenFile' = tokenFile
            /\ definitions' = definitions
            /\ calls' = Append(calls, NewCall("listTools", Trim(s), PoolGet(clients, Trim(s)), "await"))]_vars

\* listTools without auto-authorization has failed with the 401 of its own
\* attempt, on a promotable definition, and the cached tokens are still there
C33_Witness ==
  /\ returned.op = "listTools"
  /\ returned.att # 0
  /\ attempts[returned.att].max0
  /\ attempts[returned.att].first401
  /\ returned.res = ErrConnect401
  /\ maybeEnableOAuth(DefGet(definitions, returned.name)) # NoDef
  /\ tokenFile[returned.name] = 1

\* C34: every connect cycle makes a bounded number of passes, whatever the
\* server answers and also when every authorization round delivers a code:
\* from some point on no createClient invocation is at the top of a pass
\* again.
C34_PassesEnd == <>[](\A a \in Attempts : attempts[a].pc # "top")

\* C35: a createClient invocation promotes its definition at most once, and
\* only an HTTP definition that is not in OAuth mode, with auto-authorization
\* permitted; the promoted copy differs from the definition in the auth mode
\* only and is written under the same name, so the table holds the same
\* names, one definition each, before and after; and nothing but a promotion
\* or registerDefinition writes the table.
C35_PromotedOnceInPlace ==
  [][/\ \A a \in Attempts :
          LET r == attempts[a]
              q == attempts'[a]
          IN /\ q.promos <= 1
             /\ q.def # r.def =>
                  /\ HandlePrimary(a) \/ HandleSse(a)
                  /\ r.def.kind = "http" /\ r.def.auth # "oauth" /\ ~r.max0
                  /\ q.def = [r.def EXCEPT !.auth = "oauth"]
                  /\ r.promos = 0 /\ q.promos = 1
                  /\ definitions' = [definitions EXCEPT ![r.name] = q.def]
                  /\ Keys(definitions') = Keys(definitions)
     /\ definitions' # definitions =>
          \/ regs' # regs
          \/ \E a \in Attempts : attempts'[a].def # attempts[a].def]_vars

\* a cycle that promoted its definition is in its third pass: a promotion
\* and a restart after refreshed tokens are behind it
C35_Witness ==
  \E a \in Attempts :
    /\ attempts[a].promos = 1
    /\ attempts[a].rounds = 3
    /\ attempts[a].pc = "connect"
    /\ definitions[attempts[a].name] = attempts[a].def
    /\ attempts[a].def.auth = "oauth"

\* C36: the step in which a connect attempt fails takes out of the pool at
\* most the entry of that attempt: an entry that holds another attempt,
\* under the same name or another, is still there after the step.
C36_FailureRemovesOwnEntry ==
  [][\A a \in Attempts :
       (~Rejected(attempts[a]) /\ Rejected(attempts'[a])) =>
         \A n \in PoolNames :
           LET b == PoolGet(clients, n) IN
           (b # 0 /\ b # a) => PoolGet(clients', n) = b]_vars

\* C37: a connect never hands out a session whose teardown has begun: the
\* call a connect step suspends does not wait for an attempt that close has
\* torn down.
C37_NoClosingSessionHandedOut ==
  [][Len(calls') > Len(calls) =>
       LET k == calls'[Len(calls')] IN
       k.op \in ConnectOps => attempts'[k.att].pc # "closed"]_vars

\* C38: a code delivered to the callback listener after
\* redirectToAuthorization is not lost, whichever comes first, the callback
\* request or the call of waitForAuthorizationCode: a wait called when the
\* future of the last redirect has been resolved with a code gets that code,
\* and a request with a code that arrives while the listener is open and the
\* wait is pending resolves the wait with it.
C38_CodeNeverLost ==
  [][/\ waitForAuthorizationCode =>
          LET n == Len(prov.promises) IN
          (n > 0 /\ prov.promises[n][1] = "resolved") =>
            prov'.promises[prov'.waiter] = prov.promises[n]
     /\ \A q \in Requests :
          ( /\ ProvRequest(q)
            /\ StartsWith(q.path, CALLBACK_PATH) /\ Truthy(q.code)
            /\ prov.waiter # 0 /\ prov.deferred = prov.waiter
            /\ prov.promises[prov.waiter] = Pending )
          => prov'.promises[prov.waiter] = <<"resolved", q.code>>]_vars

\* the state of a transport of an attempt, by the name the context has for it
TransportState(r, t) ==
  IF t = "t1" THEN r.t1 ELSE IF t = "t2" THEN r.t2 ELSE IF t = "sse" THEN r.sse ELSE "none"

\* C39 as stated: the transport recorded in a connected session is the
\* transport its client is connected over, and that transport is open, also
\* when the client was connected over the second transport built after a
\* first 401.
C39_RecordedTransportIsLive ==
  \A a \in Attempts :
    attempts[a].pc = "ok" =>
      /\ attempts[a].ctxT = attempts[a].conn
      /\ Open(TransportState(attempts[a], attempts[a].ctxT))

\* C39 amended: the transport the client of a connected session is connected
\* over is open, and the session records that transport unless the client was
\* connected over the second transport built after a first 401: then it
\* records the first transport of the pass, which is closed; once close has
\* torn the session down, the transport the client was connected over is
\* closed and no transport of the session is open.
C39_CloseClosesLive ==
  \A a \in Attempts :
    LET r == attempts[a] IN
    /\ r.pc = "ok" =>
         /\ Open(TransportState(r, r.conn))
         /\ \/ r.ctxT = r.conn
            \/ /\ r.conn = "t2"
               /\ r.ctxT \in {"t1", "sse"}
               /\ TransportState(r, r.ctxT) = "closed"
    /\ r.pc = "closed" =>
         /\ TransportState(r, r.conn) = "closed"
         /\ ~Open(r.t1) /\ ~Open(r.t2) /\ ~Open(r.sse)

\* close(name) has returned for a session that was connected over the second
\* transport and recorded the first: the second transport is closed and the
\* pool holds no entry for the name
C39_Witness ==
  /\ returned.op = "close" /\ returned.res = "ok"
  /\ returned.att # 0
  /\ attempts[returned.att].pc = "closed"
  /\ attempts[returned.att].conn = "t2"
  /\ attempts[returned.att].ctxT = "t1"
  /\ attempts[returned.att].t2 = "closed"
  /\ PoolGet(clients, returned.name) = 0

\* a challenged scope string with a scope token in it
HasToken(scope) == scope.def /\ \E i \in DOMAIN scope.v : scope.v[i] # " "

\* C40: selectScopes never returns an empty list: it returns nothing for
\* every input no scope token can be taken from (no challenged scope or an
\* empty or blank one, and no advertised list that is not empty), and the
\* scope string a provider is created with is never the empty string.
C40_NeverEmptySelection ==
  /\ fn.op = "selectScopes" =>
       /\ fn.out.def => Len(fn.out.v) > 0
       /\ ( /\ ~HasToken(fn.in.challengedScope)
            /\ ~Advertised(fn.in.scopesSupported)
            /\ ~Advertised(fn.in.protectedResourceScopes) )
          => fn.out = None
  /\ fn.op = "create" => (fn.out.def => fn.out.v # <<>>)

====
